---- MODULE Spec2Model ----
(***************************************************************************)
(* Subtitle track resolution and extraction engine of batch-subs-gemini.   *)
(*                                                                         *)
(* subtitle_utils.py: list_subtitle_tracks, find_best_subtitle_track,      *)
(* extract_subtitle and its three strategies; batch_subs_gemini.py: the    *)
(* GUI's extract_subtitle wrapper.  The external tools (ffmpeg, ffprobe,   *)
(* the tool provisioner's integrity check, the file system) are the        *)
(* environment: each call of them is one step with a nondeterministic      *)
(* outcome.  The GUI wrapper is modelled with subtitle_utils importable     *)
(* (its ImportError branch is not taken in this repository).               *)
(*                                                                         *)
(* subtitle_utils.verify_subtitle_file is modelled on the text of the      *)
(* file (SpecVerify); ffmpeg_utils, with its three globals, the binaries   *)
(* on disk and the downloads, is modelled as a process of its own          *)
(* (SpecTools), each call of one of its functions being one step.          *)
(*                                                                         *)
(* The batch workers (TranslationWorker.run of batch_subs_gemini.py and of *)
(* gemini_srt_gui.py, main of main.py) are modelled as one process         *)
(* (SpecBatch, and SpecBatchLive with the fairness of the steps of the     *)
(* worker thread and of the main thread): what the listing, the extraction *)
(* and the translation of one file return is drawn from what these         *)
(* functions can return; the request for a track and its reply pass        *)
(* between the two threads step by step.                                   *)
(*                                                                         *)
(* Python values: an optional value is a set with at most one element      *)
(* (None = {}), a str that the code inspects is a sequence of characters,  *)
(* a bool returned by a strategy is the string "True" or "False" (a third  *)
(* value, "raised", stands for an exception leaving the function).         *)
(***************************************************************************)
EXTENDS Integers, Sequences, FiniteSets, TLC

VARIABLES
    video,                \* the container: its streams, in absolute order
    file,                 \* what is at output_srt: absent, empty, srt, junk
    pc,                   \* where the running call is
    entry,                \* the function that was called
    track_index,          \* extract_subtitle's track_index argument
    preferred_languages,  \* extract_subtitle's preferred_languages argument
    a_track_index,        \* extract_subtitle_auto's track_index (parameter, then local)
    a_preferred,          \* extract_subtitle_auto's preferred_languages parameter
    tracks,               \* what list_subtitle_tracks returned in this call
    listing,              \* how list_subtitle_tracks got there
    attempts,             \* the strategies started in this call, with their outcome
    maps,                 \* the -map extraction commands issued in this call
    c_streams,            \* extract_subtitle_force: the stream indices still to try
    c_tried,              \* extract_subtitle_force: the passes of its loop so far
    caught,               \* an exception was caught by a handler in this call
    result,               \* what the called function returned
    q_tracks,             \* find_best_subtitle_track: tracks argument
    q_preferred,          \* find_best_subtitle_track: preferred_languages argument
    q_best,               \* find_best_subtitle_track: returned value
    q_returned,           \* find_best_subtitle_track: the values returned so far
    v_file,               \* verify_subtitle_file: what is at srt_file
    v_result,             \* verify_subtitle_file: returned value
    ffmpeg_path_cache,    \* ffmpeg_utils._ffmpeg_path_cache
    ffprobe_path_cache,   \* ffmpeg_utils._ffprobe_path_cache
    ffmpeg_verified,      \* ffmpeg_utils._ffmpeg_verified
    bin,                  \* the tool binaries on disk: what is at each path
    probed,               \* the paths whose version probe has exited with 0
    handle,               \* the path get_ffmpeg_executable first returned verified
    call,                 \* the last call into ffmpeg_utils and what it did
    b_worker,             \* the batch worker that runs: the module it is defined in
    b_found,              \* what glob finds in the input folder: the .mkv files
    mkv_files,            \* the worker's list of files
    b_pc,                 \* where the worker is
    b_index,              \* the worker's loop variable index
    is_running,           \* TranslationWorker.is_running
    b_tool,               \* whether ffmpeg can be resolved or downloaded now
    b_processed,          \* the files the loop body has been run on, in order
    b_end,                \* how the worker ended
    b_slots,              \* the worker's reply handlers are connected
    b_main,               \* the main thread: idle, or a track request is queued for it
    b_reply,              \* the reply queued for the worker thread
    x_todo,               \* extract_all_subtitles: the tracks its loop has still to do
    x_calls,              \* extract_all_subtitles: its calls of extract_subtitle
    x_disk,               \* extract_all_subtitles: what is at each output path
    extracted_files,      \* extract_all_subtitles: the list it returns
    message_queue,        \* LoggerManager._message_queue: how many messages it holds
    l_pc,                 \* where each thread that calls add_message is
    l_proc,               \* where the processor thread is
    l_taken,              \* the messages the processor has collected for its batch
    shutdown_flag         \* LoggerManager._shutdown_flag

\* the variables of verify_subtitle_file
validatorVars == <<v_file, v_result>>

\* the variables of ffmpeg_utils
provisionerVars == <<ffmpeg_path_cache, ffprobe_path_cache, ffmpeg_verified, bin,
                     probed, handle, call>>

\* the variables of the batch workers
batchVars == <<b_worker, b_found, mkv_files, b_pc, b_index, is_running, b_tool,
               b_processed, b_end, b_slots, b_main, b_reply>>

\* the variables of extract_all_subtitles
exportVars == <<x_todo, x_calls, x_disk, extracted_files>>

\* the variables of the LoggerManager
loggerVars == <<message_queue, l_pc, l_proc, l_taken, shutdown_flag>>

vars == <<video, file, pc, entry, track_index, preferred_languages, a_track_index,
          a_preferred, tracks, listing, attempts, maps, c_streams, c_tried, caught, result,
          q_tracks, q_preferred, q_best, q_returned, validatorVars, provisionerVars, batchVars, exportVars, loggerVars>>

----------------------------------------------------------------------------
\* Bounds of the model.

\* longest container (number of streams) explored by the engine
MaxStreams == 2

\* longest track list handed to find_best_subtitle_track
MaxTracks == 3

\* longest preference list handed to find_best_subtitle_track
MaxPrefs == 2

\* most calls of find_best_subtitle_track with the same arguments
MaxCalls == 2

\* most lines of a file handed to verify_subtitle_file
MaxLines == 4

\* most tool binaries on disk when the process starts
MaxBinaries == 2

\* the number of .mkv files in the input folder is at most MaxFiles
MaxFiles == 3

\* the number of threads that call add_message is at most MaxThreads
MaxThreads == 2

----------------------------------------------------------------------------
\* Python values.

None == {}

Some(x) == {x}

Val(o) == CHOOSE x \in o : TRUE

\* str.lower() on one character of the alphabet used here
LowerChar(c) ==
    CASE c = "E" -> "e"
      [] c = "N" -> "n"
      [] c = "G" -> "g"
      [] c = "K" -> "k"
      [] c = "O" -> "o"
      [] c = "R" -> "r"
      [] OTHER -> c

\* str.lower()
Lower(s) == [i \in DOMAIN s |-> LowerChar(s[i])]

\* s.startswith(p)
StartsWith(s, p) == Len(s) >= Len(p) /\ SubSeq(s, 1, Len(p)) = p

\* s.endswith(p)
EndsWith(s, p) == Len(s) >= Len(p) /\ SubSeq(s, Len(s) - Len(p) + 1, Len(s)) = p

\* p in s
Contains(s, p) ==
    \E i \in 1..(Len(s) - Len(p) + 1) : SubSeq(s, i, i + Len(p) - 1) = p

S_eng == <<"e", "n", "g">>
S_ENG == <<"E", "N", "G">>
S_en == <<"e", "n">>
S_ko == <<"k", "o">>
S_kor == <<"k", "o", "r">>
S_Kor == <<"K", "o", "r">>
S_und == <<"u", "n", "d">>
S_empty == << >>
S_english == <<"e", "n", "g", "l", "i", "s", "h">>
S_space_eng == <<" ", "e", "n", "g">>
S_English == <<"E", "n", "g", "l", "i", "s", "h">>
\* 'Auto-detected subtitle'
S_Auto ==
    <<"A", "u", "t", "o", "-", "d", "e", "t", "e", "c", "t", "e", "d", " ", "s", "u", "b", "t", "i", "t", "l", "e">>

----------------------------------------------------------------------------
\* TrackSelector: find_best_subtitle_track (subtitle_utils.py:151-184).

\* the inner loop `for track in tracks` of the language pass, from position j:
\* the first position whose language equals lang case-insensitively, 0 if none
RECURSIVE ScanTracksForLanguage(_, _, _)
ScanTracksForLanguage(ts, lang, j) ==
    IF j > Len(ts) THEN 0
    ELSE IF Lower(ts[j].language) = Lower(lang) THEN j
    ELSE ScanTracksForLanguage(ts, lang, j + 1)

\* the outer loop `for lang in preferred_languages`, from rank i
RECURSIVE ScanLanguages(_, _, _)
ScanLanguages(ts, prefs, i) ==
    IF i > Len(prefs) THEN 0
    ELSE LET j == ScanTracksForLanguage(ts, prefs[i], 1)
         IN IF j # 0 THEN j ELSE ScanLanguages(ts, prefs, i + 1)

\* the title test of the second pass
TitleIsEnglish(track) ==
    LET title == Lower(track.title)
    IN \/ Contains(title, S_english)
       \/ Contains(title, S_space_eng)
       \/ EndsWith(title, S_eng)
       \/ StartsWith(title, S_eng)

\* the second pass `for track in tracks`, from position j
RECURSIVE ScanTitles(_, _)
ScanTitles(ts, j) ==
    IF j > Len(ts) THEN 0
    ELSE IF TitleIsEnglish(ts[j]) THEN j
    ELSE ScanTitles(ts, j + 1)

DefaultPreferredLanguages == <<S_eng, S_en>>

\* a selector whose loops are nested the other way round: tracks outside,
\* languages inside
BestPositionTracksFirst(ts, preferred) ==
    IF ts = << >> THEN 0
    ELSE LET prefs == IF preferred = None THEN DefaultPreferredLanguages
                      ELSE Val(preferred)
             hits == {j \in DOMAIN ts : \E i \in DOMAIN prefs :
                         Lower(ts[j].language) = Lower(prefs[i])}
             byTitle == ScanTitles(ts, 1)
         IN IF hits # {} THEN CHOOSE j \in hits : \A k \in hits : j <= k
            ELSE IF byTitle # 0 THEN byTitle
            ELSE 1

\* a selector that looks at the titles before it looks at the languages
BestPositionTitlesFirst(ts, preferred) ==
    IF ts = << >> THEN 0
    ELSE IF ScanTitles(ts, 1) # 0 THEN ScanTitles(ts, 1)
    ELSE IF ScanLanguages(ts, IF preferred = None THEN DefaultPreferredLanguages
                              ELSE Val(preferred), 1) # 0
         THEN ScanLanguages(ts, IF preferred = None THEN DefaultPreferredLanguages
                                ELSE Val(preferred), 1)
    ELSE 1

\* the position (1-based) in ts of the track find_best_subtitle_track returns,
\* 0 when it returns None
BestPosition(ts, preferred) ==
    IF ts = << >> THEN 0
    ELSE LET prefs == IF preferred = None THEN DefaultPreferredLanguages
                      ELSE Val(preferred)
             byLang == ScanLanguages(ts, prefs, 1)
             byTitle == ScanTitles(ts, 1)
         IN IF byLang # 0 THEN byLang
            ELSE IF byTitle # 0 THEN byTitle
            ELSE 1

\* a selector that remembers it has been called: from the second call on it
\* returns the last track
find_best_subtitle_track_stateful(ts, preferred) ==
    IF ts = << >> THEN None
    ELSE IF q_returned # << >> THEN Some(ts[Len(ts)])
    ELSE Some(ts[BestPosition(ts, preferred)])

\* a selector without the last resort `return tracks[0]`: nothing matched
\* gives None
find_best_subtitle_track_no_fallback(ts, preferred) ==
    LET prefs == IF preferred = None THEN DefaultPreferredLanguages
                 ELSE Val(preferred)
        p == IF ts = << >> THEN 0
             ELSE IF ScanLanguages(ts, prefs, 1) # 0 THEN ScanLanguages(ts, prefs, 1)
             ELSE ScanTitles(ts, 1)
    IN IF p = 0 THEN None ELSE Some(ts[p])

find_best_subtitle_track(ts, preferred) ==
    LET p == BestPosition(ts, preferred)
    IN IF p = 0 THEN None ELSE Some(ts[p])

----------------------------------------------------------------------------
\* The container and what the external tools say about it.

\* kinds of stream a container of the model can hold
Video == [codec_type |-> "video", codec_name |-> "h264", language |-> None, title |-> None]
SubEng == [codec_type |-> "subtitle", codec_name |-> "subrip", language |-> Some(S_eng), title |-> None]
SubKor == [codec_type |-> "subtitle", codec_name |-> "ass", language |-> Some(S_Kor), title |-> None]
SubPlain == [codec_type |-> "subtitle", codec_name |-> "subrip", language |-> None, title |-> Some(S_English)]

StreamKinds == {Video, SubEng, SubKor, SubPlain}

RECURSIVE SeqsUpTo(_, _)
SeqsUpTo(S, n) ==
    IF n = 0 THEN {<< >>}
    ELSE LET shorter == SeqsUpTo(S, n - 1)
         IN shorter \cup {Append(s, x) : s \in {t \in shorter : Len(t) = n - 1}, x \in S}

Containers == SeqsUpTo(StreamKinds, MaxStreams)

\* the positions (1-based) of v's subtitle streams, in order
SubtitlePositions(v) == {i \in DOMAIN v : v[i].codec_type = "subtitle"}

NSubs(v) == Cardinality(SubtitlePositions(v))

\* one entry of ffprobe's "streams" array for the stream at position i
ProbeEntry(v, i) ==
    [index |-> i - 1, codec_type |-> v[i].codec_type, codec_name |-> v[i].codec_name,
     language |-> v[i].language, title |-> v[i].title]

IsSubtitleEntry(e) == e.codec_type = "subtitle"

\* what run_ffprobe_command can hand back for
\* `ffprobe -v quiet -print_format json -show_streams -select_streams s`:
\* failure (no binary, non-zero exit, timeout), blank output, output that is no
\* JSON object, the JSON of the selected (subtitle) streams, or the JSON of every
\* stream of the container (a probe that does not apply the stream selector)
ProbeOutputs(v) ==
    LET all == [i \in DOMAIN v |-> ProbeEntry(v, i)]
    IN {[kind |-> "fail", streams |-> << >>],
        [kind |-> "blank", streams |-> << >>],
        [kind |-> "malformed", streams |-> << >>],
        [kind |-> "json", streams |-> SelectSeq(all, IsSubtitleEntry)],
        [kind |-> "json", streams |-> all]}

\* one `Stream #0:n(lang): Kind: codec` line of ffmpeg's stream dump
DumpLine(v, i) ==
    [n |-> i - 1,
     lang |-> v[i].language,
     kind |-> IF v[i].codec_type = "subtitle" THEN "Subtitle" ELSE "Video",
     codec |-> v[i].codec_name]

\* what run_ffmpeg_command can hand back for `ffmpeg -i video`: the text with
\* the stream dump, or a text without any Stream line (no binary, timeout,
\* execution error)
DumpOutputs(v) == {[i \in DOMAIN v |-> DumpLine(v, i)], << >>}

----------------------------------------------------------------------------
\* TrackLister: list_subtitle_tracks (subtitle_utils.py:14-149).

Track(index, stream_index, language, codec, title) ==
    [index |-> index, stream_index |-> stream_index, language |-> language,
     codec |-> codec, title |-> title]

\* dict.get(key, default) on an optional tag
GetOr(o, default) == IF o = None THEN default ELSE Val(o)

\* the loop `for i, stream in enumerate(streams)` of the structured probe, from
\* position p (i = p - 1)
RECURSIVE ProbeLoop(_, _)
ProbeLoop(streams, p) ==
    IF p > Len(streams) THEN << >>
    ELSE LET stream == streams[p]
             rest == ProbeLoop(streams, p + 1)
         IN IF stream.codec_type = "subtitle"
            THEN <<Track(p - 1, stream.index, GetOr(stream.language, S_und),
                         stream.codec_name, GetOr(stream.title, S_empty))>> \o rest
            ELSE rest

\* a structured probe that takes every entry of the stream list for a subtitle
get_subtitle_tracks_with_ffprobe_unfiltered(integrity, out) ==
    IF ~integrity \/ out.kind \in {"fail", "malformed"}
    THEN [raised |-> TRUE, tracks |-> << >>]
    ELSE [raised |-> FALSE,
          tracks |-> [p \in DOMAIN out.streams |->
                        Track(p - 1, out.streams[p].index,
                              GetOr(out.streams[p].language, S_und),
                              out.streams[p].codec_name,
                              GetOr(out.streams[p].title, S_empty))]]

\* a structured probe that takes blank output for a failure
get_subtitle_tracks_with_ffprobe_blank_raises(integrity, out) ==
    IF ~integrity \/ out.kind \in {"fail", "blank", "malformed"}
    THEN [raised |-> TRUE, tracks |-> << >>]
    ELSE [raised |-> FALSE, tracks |-> ProbeLoop(out.streams, 1)]

\* _get_subtitle_tracks_with_ffprobe: raises, or returns the tracks
get_subtitle_tracks_with_ffprobe(integrity, out) ==
    IF ~integrity THEN [raised |-> TRUE, tracks |-> << >>]
    ELSE IF out.kind = "fail" THEN [raised |-> TRUE, tracks |-> << >>]
    ELSE IF out.kind = "blank" THEN [raised |-> FALSE, tracks |-> << >>]
    ELSE IF out.kind = "malformed" THEN [raised |-> TRUE, tracks |-> << >>]
    ELSE [raised |-> FALSE, tracks |-> ProbeLoop(out.streams, 1)]

IsSubtitleLine(l) == l.kind = "Subtitle"

\* subtitle_pattern.findall(output): the lines of the dump that say Subtitle
SubtitleMatches(dump) == SelectSeq(dump, IsSubtitleLine)

\* _get_subtitle_tracks_with_ffmpeg: raises, or returns the tracks
get_subtitle_tracks_with_ffmpeg(integrity, dump) ==
    IF ~integrity THEN [raised |-> TRUE, tracks |-> << >>]
    ELSE LET matches == SubtitleMatches(dump)
         IN [raised |-> FALSE,
             tracks |-> [i \in DOMAIN matches |->
                           Track(i - 1, matches[i].n, GetOr(matches[i].lang, S_und),
                                 matches[i].codec, S_empty)]]

\* the track list_subtitle_tracks assumes when both methods raised
DefaultTrack == Track(0, 0, S_und, "unknown", S_Auto)

\* a lister that returns nothing when both methods raised
ListAfterFfmpegEmpty(r) == r.tracks

\* list_subtitle_tracks after its second method: its result, or the default
ListAfterFfmpeg(r) == IF r.raised THEN <<DefaultTrack>> ELSE r.tracks

----------------------------------------------------------------------------
\* The extraction tool and the output file.

FileStates == {"absent", "empty", "srt", "junk"}

\* os.path.exists(output_srt)
Exists(f) == f # "absent"

\* os.path.getsize(output_srt) > 0
NonEmpty(f) == f \in {"srt", "junk"}

\* re.search(r'\d+\s+\d{2}:\d{2}:\d{2},\d{3}', content) on the first 200 characters
LooksLikeSrt(f) == f = "srt"

\* -map 0:s:k names the k-th subtitle stream, -map 0:k the k-th stream
SubtitleOrdinal(k) == <<"s", k>>
AbsoluteStream(k) == <<"abs", k>>

TargetExists(v, target) ==
    IF target[1] = "s" THEN target[2] >= 0 /\ target[2] < NSubs(v)
    ELSE target[2] >= 0 /\ target[2] < Len(v)

TargetIsSubtitle(v, target) ==
    /\ TargetExists(v, target)
    /\ target[1] = "abs" => v[target[2] + 1].codec_type = "subtitle"

\* what run_ffmpeg_command and the file system can do for
\* `ffmpeg -y -i video -map <target> -c:s srt output_srt` when output_srt holds f:
\* success is the command's boolean, file what output_srt holds afterwards,
\* oserror whether reading the file's size or content raises.  A target that
\* names no stream of the container always fails and writes nothing; a failure
\* (no binary, non-zero exit, timeout) may leave the file as it was, truncated or
\* partly written; only a subtitle stream can yield SRT text.
RunOutcomes(v, target, f) ==
    LET failed == {f} \cup (IF TargetExists(v, target) THEN {"empty", "junk"} ELSE {})
        succeeded == IF ~TargetExists(v, target) THEN {}
                     ELSE {f, "empty", "junk"} \cup
                          (IF TargetIsSubtitle(v, target) THEN {"srt"} ELSE {})
    IN {[success |-> FALSE, file |-> g, oserror |-> FALSE] : g \in failed}
       \cup {[success |-> TRUE, file |-> g, oserror |-> e] : g \in succeeded, e \in BOOLEAN}

\* what check_ffmpeg_integrity() can return (truthy or falsy); it does not raise
IntegrityOutcomes == BOOLEAN

\* `success and os.path.exists(output_srt) and os.path.getsize(output_srt) > 0`:
\* "True", "False", or "raise" when getsize raises
CheckOutput(o) ==
    IF ~o.success THEN "False"
    ELSE IF ~Exists(o.file) THEN "False"
    ELSE IF o.oserror THEN "raise"
    ELSE IF NonEmpty(o.file) THEN "True"
    ELSE "False"

----------------------------------------------------------------------------
\* SubtitleExtractor: the three strategies (subtitle_utils.py:214-376).

\* a handler that lets the exception out of the strategy
extract_subtitle_auto_reraises == "raised"

\* `except Exception` of extract_subtitle_auto: what the strategy returns
extract_subtitle_auto_except == "False"

\* `except Exception` of extract_subtitle_simple
extract_subtitle_simple_except == "False"

\* a selection that assumes subtitle ordinal 0 when the listing is empty
SelectTrackIndexAssumeFirst(ts, preferred) ==
    IF ts = << >> THEN Some(0)
    ELSE Some(Val(find_best_subtitle_track(ts, preferred)).index)

\* extract_subtitle_auto, track_index is None: the listing's tracks to the
\* subtitle ordinal to extract, None when the strategy returns False instead
SelectTrackIndex(ts, preferred) ==
    IF ts = << >> THEN None
    ELSE LET selected_track == find_best_subtitle_track(ts, preferred)
         IN IF selected_track = None THEN None
            ELSE Some(Val(selected_track).index)

\* extract_subtitle_auto and extract_subtitle_simple after the tool ran with
\* outcome o: what the strategy returns (handler when the check raises), what
\* output_srt holds, and whether the handler ran
MapAttempt(o, handler) ==
    [outcome |-> IF CheckOutput(o) = "raise" THEN handler ELSE CheckOutput(o),
     file |-> o.file,
     caught |-> CheckOutput(o) = "raise"]

\* a scan that takes only the lines of the dump that say Subtitle
AllStreamIndicesOfSubtitles(dump) ==
    [i \in DOMAIN SubtitleMatches(dump) |-> SubtitleMatches(dump)[i].n]

\* stream_pattern.findall(output) of extract_subtitle_force: every stream index
\* of the dump, in the dump's order
AllStreamIndices(dump) == [i \in DOMAIN dump |-> dump[i].n]

\* a pass that takes any output that is not empty for a subtitle
ForceAttemptAnyOutput(o, readerr, rmerr) ==
    IF CheckOutput(o) = "raise" THEN [step |-> "next", file |-> o.file, caught |-> TRUE]
    ELSE IF CheckOutput(o) = "False" THEN [step |-> "next", file |-> o.file, caught |-> FALSE]
    ELSE [step |-> "hit", file |-> o.file, caught |-> FALSE]

\* a pass that removes whatever is at output_srt when it does not win
ForceAttemptAlwaysRemoves(o, readerr, rmerr) ==
    IF CheckOutput(o) = "True" /\ ~readerr /\ LooksLikeSrt(o.file)
    THEN [step |-> "hit", file |-> o.file, caught |-> FALSE]
    ELSE [step |-> "next", file |-> "absent", caught |-> CheckOutput(o) = "raise" \/ readerr]

\* one pass of extract_subtitle_force's loop body on the tool's outcome o:
\* "hit" (return True), or "next" (go on with the next stream); file is what
\* output_srt holds after the pass, caught whether the inner handler ran
ForceAttempt(o, readerr, rmerr) ==
    LET chk == CheckOutput(o)
    IN IF chk = "raise" THEN [step |-> "next", file |-> o.file, caught |-> TRUE]
       ELSE IF chk = "False" THEN [step |-> "next", file |-> o.file, caught |-> FALSE]
       ELSE IF readerr THEN [step |-> "next", file |-> o.file, caught |-> TRUE]
       ELSE IF LooksLikeSrt(o.file) THEN [step |-> "hit", file |-> o.file, caught |-> FALSE]
       ELSE IF rmerr THEN [step |-> "next", file |-> o.file, caught |-> TRUE]
       ELSE [step |-> "next", file |-> "absent", caught |-> FALSE]

\* the output of the pass passes the size and content checks: the command
\* succeeded, output_srt exists, is not empty, and its first 200 characters
\* hold a cue number and a timestamp
PassesChecks(o, readerr) ==
    /\ o.success
    /\ Exists(o.file)
    /\ ~o.oserror
    /\ NonEmpty(o.file)
    /\ ~readerr
    /\ LooksLikeSrt(o.file)

\* one pass of the loop, and whether its output passed the checks
ForcePass(o, readerr, rmerr) ==
    [attempt |-> ForceAttempt(o, readerr, rmerr), passed |-> PassesChecks(o, readerr)]

----------------------------------------------------------------------------
\* SubtitleExtractor: the orchestrators.
\* A stage is "call" (nothing ran yet), "Ax" (extract_subtitle_auto with the
\* caller's track_index), "A" (extract_subtitle_auto selecting the track),
\* "B" (extract_subtitle_simple) or "C" (extract_subtitle_force).  An
\* orchestrator maps the stage that ended and its outcome to the stage to run
\* next, or to the value to return.

\* an orchestrator that goes on to the simple strategy whatever
\* extract_subtitle_auto returned
extract_subtitle_ignores_auto(ti, stage, outcome) ==
    IF outcome = "raised" THEN "raised"
    ELSE IF stage = "call" THEN (IF ti # None THEN "True" ELSE "A")
    ELSE IF stage = "A" THEN "B"
    ELSE IF outcome = "True" THEN "True"
    ELSE IF stage = "B" THEN "C"
    ELSE "False"

\* subtitle_utils.extract_subtitle
extract_subtitle(ti, stage, outcome) ==
    IF outcome = "raised" THEN "raised"
    ELSE IF stage = "call" THEN (IF ti # None THEN "True" ELSE "A")
    ELSE IF outcome = "True" THEN "True"
    ELSE IF stage = "A" THEN "B"
    ELSE IF stage = "B" THEN "C"
    ELSE "False"

\* batch_subs_gemini.extract_subtitle, subtitle_utils importable
gui_extract_subtitle(ti, stage, outcome) ==
    IF outcome = "raised" THEN "False"
    ELSE IF stage = "call" THEN (IF ti # None THEN "Ax" ELSE "A")
    ELSE IF outcome = "True" THEN "True"
    ELSE IF stage = "Ax" THEN "A"
    ELSE IF stage = "A" THEN "B"
    ELSE IF stage = "B" THEN "C"
    ELSE "False"

\* batch_subs_gemini.extract_subtitle's default preference list
GuiDefaultPreferred == <<S_en, S_ko, S_und>>

Orchestrate(e, ti, stage, outcome) ==
    IF e = "utils" THEN extract_subtitle(ti, stage, outcome)
    ELSE gui_extract_subtitle(ti, stage, outcome)

\* the arguments an orchestrator passes to extract_subtitle_auto
AutoArgs(e, ti, pl, stage) ==
    IF stage = "Ax" THEN [ti |-> ti, pl |-> None]
    ELSE IF stage = "A" /\ e = "utils" THEN [ti |-> ti, pl |-> pl]
    ELSE IF stage = "A" THEN [ti |-> None,
                              pl |-> IF pl = None THEN Some(GuiDefaultPreferred) ELSE pl]
    ELSE [ti |-> None, pl |-> None]

IsReturn(next) == next \in {"True", "False", "raised"}

StagePc(stage) == IF stage = "Ax" THEN "A" ELSE stage

Attempt(stage) ==
    [strategy |-> StagePc(stage), explicit |-> stage = "Ax", outcome |-> "running"]

\* the stage of the attempt that is running
CurrentStage ==
    LET cur == attempts[Len(attempts)]
    IN IF cur.strategy = "A" /\ cur.explicit THEN "Ax" ELSE cur.strategy

\* the running strategy returns outcome (or lets an exception out, "raised"):
\* the orchestrator returns, or starts the next strategy
Finish(outcome) ==
    LET next == Orchestrate(entry, track_index, CurrentStage, outcome)
        closed == [attempts EXCEPT ![Len(attempts)].outcome = outcome]
        args == AutoArgs(entry, track_index, preferred_languages, next)
    IN /\ a_track_index' = args.ti
       /\ a_preferred' = args.pl
       /\ IF IsReturn(next)
          THEN /\ pc' = "done"
               /\ result' = next
               /\ attempts' = closed
          ELSE /\ pc' = StagePc(next)
               /\ result' = result
               /\ attempts' = Append(closed, Attempt(next))

----------------------------------------------------------------------------
\* SubtitleFileValidator: verify_subtitle_file.  The text of a file is a
\* sequence of characters, "\n" being the line terminator.

\* the characters str.strip() removes
Whitespace == {" ", "\n", "\t"}

\* str.strip(): what lies between the first and the last character that is
\* not whitespace
str_strip(s) ==
    LET kept == {i \in DOMAIN s : s[i] \notin Whitespace}
    IN IF kept = {} THEN << >>
       ELSE SubSeq(s, CHOOSE i \in kept : \A j \in kept : i <= j,
                      CHOOSE i \in kept : \A j \in kept : j <= i)

\* str.split('\n'): one more line than there are "\n" in s, line k lying
\* between the (k-1)-th and the k-th of them; the empty string splits into
\* one empty line
str_split(s) ==
    LET breaks == {i \in DOMAIN s : s[i] = "\n"}
        Break(k) == CHOOSE i \in breaks : Cardinality({j \in breaks : j < i}) = k - 1
        n == Cardinality(breaks)
    IN [k \in 1..(n + 1) |->
           SubSeq(s, IF k = 1 THEN 1 ELSE Break(k - 1) + 1,
                     IF k = n + 1 THEN Len(s) ELSE Break(k) - 1)]

Digits == {"0", "1", "2", "3", "4", "5", "6", "7", "8", "9"}

\* str.isdigit(): at least one character, all of them digits
str_isdigit(s) == s # << >> /\ \A i \in DOMAIN s : s[i] \in Digits

\* r'\d{2}:\d{2}:\d{2},\d{3} --> \d{2}:\d{2}:\d{2},\d{3}', one item per
\* character matched
time_pattern ==
    <<"\\d", "\\d", ":", "\\d", "\\d", ":", "\\d", "\\d", ",", "\\d", "\\d", "\\d",
      " ", "-", "-", ">", " ", "\\d", "\\d", ":", "\\d", "\\d", ":", "\\d",
      "\\d", ",", "\\d", "\\d", "\\d">>

\* re.match(pattern, s): the pattern matches at the start of s; what follows
\* the match is not looked at
re_match(pattern, s) ==
    /\ Len(s) >= Len(pattern)
    /\ \A i \in DOMAIN pattern :
          IF pattern[i] = "\\d" THEN s[i] \in Digits ELSE s[i] = pattern[i]

\* what verify_subtitle_file returns: the tuple (valid, line_count), or an
\* exception leaving the function
VerifyResult(valid, line_count) ==
    [valid |-> valid, line_count |-> line_count, raised |-> FALSE]

\* a validator that does not look at the second line
verify_subtitle_file_no_time_check(f) ==
    IF f.kind # "text"
    THEN VerifyResult(FALSE, 0)
    ELSE IF Len(str_split(str_strip(f.content))) < 4
         THEN VerifyResult(FALSE, Len(str_split(str_strip(f.content))))
    ELSE VerifyResult(str_isdigit(str_strip(str_split(str_strip(f.content))[1])),
                      Len(str_split(str_strip(f.content))))

\* a validator without the `except Exception` handler
verify_subtitle_file_no_handler(f) ==
    IF f.kind # "text"
    THEN [valid |-> FALSE, line_count |-> 0, raised |-> TRUE]
    ELSE LET lines == str_split(str_strip(f.content))
             line_count == Len(lines)
         IN IF line_count < 4 THEN VerifyResult(FALSE, line_count)
            ELSE IF ~str_isdigit(str_strip(lines[1])) THEN VerifyResult(FALSE, line_count)
            ELSE IF ~re_match(time_pattern, str_strip(lines[2]))
                 THEN VerifyResult(FALSE, line_count)
            ELSE VerifyResult(TRUE, line_count)

\* verify_subtitle_file(srt_file); f is what is at srt_file.  open() and
\* read() raise for a missing, an unreadable and an undecodable file, and the
\* handler turns that into (False, 0).
verify_subtitle_file(f) ==
    IF f.kind # "text"
    THEN VerifyResult(FALSE, 0)
    ELSE LET lines == str_split(str_strip(f.content))
             line_count == Len(lines)
         IN IF line_count < 4 THEN VerifyResult(FALSE, line_count)
            ELSE IF ~str_isdigit(str_strip(lines[1])) THEN VerifyResult(FALSE, line_count)
            ELSE IF ~re_match(time_pattern, str_strip(lines[2]))
                 THEN VerifyResult(FALSE, line_count)
            ELSE VerifyResult(TRUE, line_count)

----------------------------------------------------------------------------
\* ToolProvisioner: ffmpeg_utils.  A path is a directory and a file name; a
\* bare command name has no directory.  The functions work on the module
\* state st (the three globals, the binaries on disk, what the call has done
\* so far, the outcomes of the downloads still to come) and return the new
\* state with the value returned.

Path(dir, name) == [dir |-> dir, name |-> name]

BareName(name) == Path("", name)

\* a search list that starts with the directories of PATH
paths_to_check_path_first == <<"path", "bundle", "script", "script_bin">>

\* the directories get_ffmpeg_executable searches, in the order of
\* paths_to_check: the bundled application's bin directory, the directory of
\* the script, its bin subdirectory, the directories of PATH
paths_to_check == <<"bundle", "script", "script_bin", "path">>

\* ~/.batch_subs_gemini/bin, where a download is installed
install_dir == "install"

Dirs == {paths_to_check[i] : i \in DOMAIN paths_to_check} \cup {install_dir}

BinaryPaths == {Path(d, n) : d \in Dirs, n \in {"ffmpeg", "ffprobe"}}

\* what is at a path: nothing, or an executable whose version probe exits with
\* 0, exits with another code, or does not end within the 5 seconds
BinStates == {"absent", "ok", "nonzero", "timeout"}

\* what download_ffmpeg does: it fails (network error, unsupported system,
\* unpacking error), or it installs what the archive held
DownloadOutcomes ==
    {[ok |-> FALSE, ffmpeg |-> "absent", ffprobe |-> "absent"],
     [ok |-> TRUE, ffmpeg |-> "ok", ffprobe |-> "ok"],
     [ok |-> TRUE, ffmpeg |-> "nonzero", ffprobe |-> "absent"]}

\* the outcomes of the downloads of one call: that of the first download, and
\* that of all the later ones
DownloadPlans == DownloadOutcomes \X DownloadOutcomes

Event(op, path, exit) == [op |-> op, path |-> path, exit |-> exit]

Did(st, e) == [st EXCEPT !.events = Append(@, e)]

Returns(st, ret) == [st |-> st, ret |-> ret]

\* verify_ffmpeg(path) and verify_ffprobe(path), which are the same code
verify_ffmpeg(st, path) ==
    IF st.bin[path] = "absent" THEN Returns(st, FALSE)
    ELSE LET ran == Did(st, Event("probe", path, st.bin[path]))
         IN IF st.bin[path] = "ok"
            THEN Returns([ran EXCEPT !.probed = @ \cup {path}], TRUE)
            ELSE Returns(ran, FALSE)

\* download_ffmpeg(): on success the globals are set to the installed paths,
\* whether or not the archive held the binaries
download_ffmpeg(st) ==
    LET o == Head(st.dls)
        rest == IF Len(st.dls) > 1 THEN Tail(st.dls) ELSE st.dls
        at == Path(install_dir, "ffmpeg")
        installed ==
            [q \in DOMAIN st.bin |->
                IF q = Path(install_dir, "ffmpeg") /\ o.ffmpeg # "absent" THEN o.ffmpeg
                ELSE IF q = Path(install_dir, "ffprobe") /\ o.ffprobe # "absent" THEN o.ffprobe
                ELSE st.bin[q]]
    IN IF ~o.ok
       THEN Returns([Did(st, Event("download", at, "failed")) EXCEPT !.dls = rest], None)
       ELSE Returns([Did(st, Event("download", at, "installed")) EXCEPT
                        !.dls = rest,
                        !.bin = installed,
                        !.ffmpeg_path_cache = Some(at),
                        !.ffprobe_path_cache = Some(Path(install_dir, "ffprobe")),
                        !.ffmpeg_verified = TRUE],
                    Some(at))

\* the loop `for path in paths_to_check` of get_ffmpeg_executable, from
\* position i
RECURSIVE SearchFfmpeg(_, _)
SearchFfmpeg(st, i) ==
    IF i > Len(paths_to_check) THEN Returns(st, None)
    ELSE LET candidate == Path(paths_to_check[i], "ffmpeg")
         IN IF st.bin[candidate] = "absent" THEN SearchFfmpeg(st, i + 1)
            ELSE LET v == verify_ffmpeg(st, candidate)
                 IN IF v.ret
                    THEN Returns([v.st EXCEPT !.ffmpeg_verified = TRUE], Some(candidate))
                    ELSE SearchFfmpeg(v.st, i + 1)

\* lines 89-94 of get_ffmpeg_executable: the download, tried when the search
\* has found nothing
DownloadIfNotFound(found) ==
    IF found.ret = None THEN download_ffmpeg(found.st) ELSE found

\* lines 96-97 of get_ffmpeg_executable
StoreFfmpeg(got) == Returns([got.st EXCEPT !.ffmpeg_path_cache = got.ret], got.ret)

\* get_ffmpeg_executable()
get_ffmpeg_executable(st) ==
    IF st.ffmpeg_path_cache # None /\ st.ffmpeg_verified
    THEN Returns(st, st.ffmpeg_path_cache)
    ELSE StoreFfmpeg(DownloadIfNotFound(SearchFfmpeg(st, 1)))

\* the candidate beside ffmpeg_path has been tested and, if it is there,
\* verified as v: the verified path is cached and returned, or None
ProbedBeside(st, candidate, v) ==
    IF st.bin[candidate] = "absent" THEN Returns(st, None)
    ELSE IF v.ret THEN Returns([v.st EXCEPT !.ffprobe_path_cache = Some(candidate)],
                               Some(candidate))
    ELSE Returns(v.st, None)

\* `ffprobe_path = os.path.join(ffmpeg_dir, executable_name)` and the test and
\* verification of that candidate, where get_ffmpeg_executable() has returned
\* got; the value is the verified path, or None
ProbeBesideFfmpeg(got) ==
    IF got.ret = None THEN Returns(got.st, None)
    ELSE ProbedBeside(got.st, Path(Val(got.ret).dir, "ffprobe"),
                      verify_ffmpeg(got.st, Path(Val(got.ret).dir, "ffprobe")))

\* lines 144-149 of get_ffprobe_executable, where the second candidate has
\* been dealt with as retry
FfprobeGivenUp(retry) ==
    IF retry.ret # None THEN retry
    ELSE Returns(retry.st, retry.st.ffprobe_path_cache)

\* lines 140-153 of get_ffprobe_executable, where the second
\* get_ffmpeg_executable() has returned again.  executable_name is bound only
\* where the first get_ffmpeg_executable() returned a path (bound); its use
\* is a NameError otherwise, which the handler turns into None.
FfprobeSecondTry(bound, again) ==
    IF again.ret = None THEN Returns(again.st, again.st.ffprobe_path_cache)
    ELSE IF ~bound THEN Returns(again.st, None)
    ELSE FfprobeGivenUp(ProbeBesideFfmpeg(again))

\* lines 135-149 of get_ffprobe_executable, where the first candidate has been
\* dealt with as beside
FfprobeFirstTry(bound, beside) ==
    IF beside.ret # None THEN beside
    ELSE IF beside.st.ffprobe_path_cache # None
         THEN Returns(beside.st, beside.st.ffprobe_path_cache)
    ELSE FfprobeSecondTry(bound, get_ffmpeg_executable(download_ffmpeg(beside.st).st))

\* lines 113-149 of get_ffprobe_executable, where the first
\* get_ffmpeg_executable() has returned first
FfprobeBeside(first) == FfprobeFirstTry(first.ret # None, ProbeBesideFfmpeg(first))

\* get_ffprobe_executable()
get_ffprobe_executable(st) ==
    IF st.ffprobe_path_cache # None /\ st.ffmpeg_verified
    THEN Returns(st, st.ffprobe_path_cache)
    ELSE FfprobeBeside(get_ffmpeg_executable(st))

\* the texts the command runners return on their own account
NotFoundText(tool) == IF tool = "ffmpeg" THEN "ffmpeg not found" ELSE "ffprobe not found"

BadFormatText == "malformed command"

TimeoutText == "command execution timed out"

\* what a command runner returns: the tuple (success, output), or an
\* exception leaving the function
RunResult(success, output) == [success |-> success, output |-> output, raised |-> FALSE]

\* how a started process ends: exit code 0, another exit code, no end within
\* the timeout, or it could not be started
ProcessOutcomes == {"zero", "nonzero", "timeout", "oserror"}

\* the commands a caller hands over: a list that starts with the bare
\* command name, an empty list, something that is not a list
Commands(tool) ==
    {[kind |-> "list", argv |-> <<BareName(tool), BareName("-i")>>],
     [kind |-> "list", argv |-> << >>],
     [kind |-> "str", argv |-> << >>]}

Ran(st, ret, resolved) == [st |-> st, ret |-> ret, resolved |-> resolved]

\* the text of a process that ended, or of the exception that was caught
OutputOf(outcome) ==
    CASE outcome = "zero" -> "process.stdout"
      [] outcome = "nonzero" -> "process.stderr"
      [] outcome = "timeout" -> TimeoutText
      [] OTHER -> "str(e)"

\* a runner that hands the command to subprocess.run as the caller wrote it
ExecuteAsGiven(st, path, cmd, px) ==
    IF cmd.kind # "list" \/ cmd.argv = << >>
    THEN Ran(st, RunResult(FALSE, BadFormatText), path)
    ELSE LET outcome == IF st.bin[Val(path)] = "absent" THEN "oserror" ELSE px
         IN Ran(Did(st, Event("exec", cmd.argv[1], outcome)),
                RunResult(outcome = "zero", OutputOf(outcome)), path)

\* a runner without the `except subprocess.TimeoutExpired` and `except
\* Exception` handlers
ExecuteNoHandlers(st, path, cmd, px) ==
    IF cmd.kind # "list" \/ cmd.argv = << >>
    THEN Ran(st, RunResult(FALSE, BadFormatText), path)
    ELSE LET argv == [cmd.argv EXCEPT ![1] = Val(path)]
             outcome == IF st.bin[Val(path)] = "absent" THEN "oserror" ELSE px
             ran == Did(st, Event("exec", argv[1], outcome))
         IN IF outcome \in {"timeout", "oserror"}
            THEN Ran(ran, [success |-> FALSE, output |-> "", raised |-> TRUE], path)
            ELSE Ran(ran, RunResult(outcome = "zero", OutputOf(outcome)), path)

\* run_ffmpeg_command and run_ffprobe_command after the tool was resolved to
\* path: cmd[0] is replaced, the process is run, its end is turned into the
\* returned tuple
Execute(st, path, cmd, px) ==
    IF cmd.kind # "list" \/ cmd.argv = << >>
    THEN Ran(st, RunResult(FALSE, BadFormatText), path)
    ELSE LET argv == [cmd.argv EXCEPT ![1] = Val(path)]
             outcome == IF st.bin[Val(path)] = "absent" THEN "oserror" ELSE px
         IN Ran(Did(st, Event("exec", argv[1], outcome)),
                RunResult(outcome = "zero", OutputOf(outcome)), path)

\* a runner that does not test `if not ffmpeg_path`
RunResolvedUnchecked(got, tool, cmd, px) ==
    IF got.ret = None
    THEN Ran(Did(got.st, Event("exec", BareName("None"), "oserror")),
             RunResult(FALSE, "str(e)"), None)
    ELSE Execute(got.st, got.ret, cmd, px)

\* run_ffmpeg_command(cmd, timeout) and run_ffprobe_command(cmd, timeout)
\* from the point where the resolver of their tool has returned got
RunResolved(got, tool, cmd, px) ==
    IF got.ret = None
    THEN Ran(got.st, RunResult(FALSE, NotFoundText(tool)), None)
    ELSE Execute(got.st, got.ret, cmd, px)

\* the resolver of a tool
Resolve(tool, st) ==
    IF tool = "ffprobe" THEN get_ffprobe_executable(st) ELSE get_ffmpeg_executable(st)

\* `not path or not verify(path)` of check_ffmpeg_integrity, where the
\* resolver has returned got
VerifyResolved(got) ==
    IF got.ret = None THEN Returns(got.st, FALSE)
    ELSE verify_ffmpeg(got.st, Val(got.ret))

\* one half of check_ffmpeg_integrity, where the resolver has returned got and
\* the verification v: on failure, download and resolve again
Recheck(tool, got, v) ==
    IF v.ret THEN Returns(v.st, got.ret)
    ELSE Resolve(tool, download_ffmpeg(v.st).st)

Rechecked(tool, got) == Recheck(tool, got, VerifyResolved(got))

\* one half of check_ffmpeg_integrity: resolve, verify, and on failure
\* download and resolve again
ResolveChecked(tool, st) == Rechecked(tool, Resolve(tool, st))

\* `return ffmpeg_path and ffprobe_path`, with the value of the local
\* ffmpeg_path at that point
IntegrityResult(ffmpeg, ffprobe) ==
    [st |-> ffprobe.st,
     ret |-> IF ffmpeg.ret = None THEN None ELSE ffprobe.ret,
     ffmpeg_path |-> ffmpeg.ret]

\* the second half of check_ffmpeg_integrity, the first having ended as ffmpeg
IntegrityOfFfprobe(ffmpeg) ==
    IntegrityResult(ffmpeg, ResolveChecked("ffprobe", ffmpeg.st))

\* check_ffmpeg_integrity()
check_ffmpeg_integrity(st) == IntegrityOfFfprobe(ResolveChecked("ffmpeg", st))

----------------------------------------------------------------------------
\* The state machine of one process: calls of extract_subtitle (either
\* orchestrator) and of list_subtitle_tracks on one container, one after the
\* other.

\* no file has been handed to verify_subtitle_file
NoFile == [kind |-> "missing", content |-> << >>]

ValidatorIdle ==
    /\ v_file = NoFile
    /\ v_result = None

\* no call into ffmpeg_utils has been made
NoCall ==
    [fn |-> "none", path |-> None, result |-> RunResult(FALSE, ""), events |-> << >>,
     cmd |-> [kind |-> "none", argv |-> << >>], cache |-> None, handle |-> None,
     ffmpeg_path |-> None]

NoBinaries == [q \in BinaryPaths |-> "absent"]

ProvisionerIdle ==
    /\ ffmpeg_path_cache = None
    /\ ffprobe_path_cache = None
    /\ ffmpeg_verified = FALSE
    /\ bin = NoBinaries
    /\ probed = {}
    /\ handle = None
    /\ call = NoCall

\* no batch worker has been started
BatchIdle ==
    /\ b_worker = "none"
    /\ b_found = {}
    /\ mkv_files = << >>
    /\ b_pc = "none"
    /\ b_index = 0
    /\ is_running = TRUE
    /\ b_tool = "ok"
    /\ b_processed = << >>
    /\ b_end = "none"
    /\ b_slots = FALSE
    /\ b_main = "idle"
    /\ b_reply = [signal |-> "none", index |-> 0]

\* extract_all_subtitles is not running
ExportIdle ==
    /\ x_todo = << >>
    /\ x_calls = << >>
    /\ x_disk = << >>
    /\ extracted_files = << >>

\* no LoggerManager has been created
LoggerIdle ==
    /\ message_queue = 0
    /\ l_pc = << >>
    /\ l_proc = "none"
    /\ l_taken = 0
    /\ shutdown_flag = FALSE

TrackIndexChoices == {None, Some(0), Some(1), Some(5)}

PreferenceChoices == {None, Some(<<S_kor>>)}

NotListed == [ffprobe |-> "notrun", ffmpeg |-> "notrun", reported |-> {}, probe |-> "notrun"]

\* how the structured probe went: the integrity check failed, or the command
\* ended as out.kind says.  listing.probe holds it while list_subtitle_tracks
\* is at method 1 or in its handler, and "handled" once method 2 has run.
ProbeEnd(integrity, out) == IF ~integrity THEN "integrity" ELSE out.kind

Init ==
    /\ video \in Containers
    /\ file = "absent"
    /\ pc = "idle"
    /\ entry = "none"
    /\ track_index = None
    /\ preferred_languages = None
    /\ a_track_index = None
    /\ a_preferred = None
    /\ tracks = None
    /\ listing = NotListed
    /\ attempts = << >>
    /\ maps = {}
    /\ c_streams = << >>
    /\ c_tried = << >>
    /\ caught = FALSE
    /\ result = "none"
    /\ q_tracks = << >>
    /\ q_preferred = None
    /\ q_best = None
    /\ q_returned = << >>
    /\ ValidatorIdle
    /\ ProvisionerIdle
    /\ BatchIdle
    /\ ExportIdle
    /\ LoggerIdle

\* extract_subtitle(video_file, output_srt, track_index, preferred_languages) is
\* called: subtitle_utils' (e = "utils") or the GUI's (e = "gui")
CallExtract ==
    /\ pc = "idle"
    /\ \E e \in {"utils", "gui"}, ti \in TrackIndexChoices, pl \in PreferenceChoices :
          LET first == Orchestrate(e, ti, "call", "none")
              args == AutoArgs(e, ti, pl, first)
          IN /\ entry' = e
             /\ track_index' = ti
             /\ preferred_languages' = pl
             /\ a_track_index' = args.ti
             /\ a_preferred' = args.pl
             /\ IF IsReturn(first)
                THEN pc' = "done" /\ result' = first /\ attempts' = << >>
                ELSE pc' = StagePc(first) /\ result' = "none"
                     /\ attempts' = <<Attempt(first)>>
    /\ UNCHANGED <<video, file, tracks, listing, maps, c_streams, c_tried, caught,
                   q_tracks, q_preferred, q_best, q_returned, validatorVars, provisionerVars, batchVars, exportVars, loggerVars>>

\* list_subtitle_tracks(video_file) is called on its own
CallList ==
    /\ pc = "idle"
    /\ entry' = "list"
    /\ pc' = "L_ffprobe"
    /\ UNCHANGED <<video, file, track_index, preferred_languages, a_track_index,
                   a_preferred, tracks, listing, attempts, maps, c_streams, c_tried, caught,
                   result, q_tracks, q_preferred, q_best, q_returned, validatorVars, provisionerVars, batchVars, exportVars, loggerVars>>

\* extract_subtitle_auto: the integrity check, then the listing or the tool
AutoIntegrity ==
    /\ pc = "A"
    /\ \E integrity \in IntegrityOutcomes :
          IF ~integrity THEN Finish("False")
          ELSE /\ pc' = IF a_track_index = None THEN "L_ffprobe" ELSE "A_run"
               /\ UNCHANGED <<a_track_index, a_preferred, attempts, result>>
    /\ UNCHANGED <<video, file, entry, track_index, preferred_languages, tracks,
                   listing, maps, c_streams, c_tried, caught, q_tracks, q_preferred, q_best, q_returned, validatorVars, provisionerVars, batchVars, exportVars, loggerVars>>

\* list_subtitle_tracks returns ts: to its caller, or into extract_subtitle_auto,
\* which selects the track or returns False
ListReturn(ts) ==
    /\ tracks' = Some(ts)
    /\ IF entry = "list"
       THEN /\ pc' = "done"
            /\ result' = "returned"
            /\ UNCHANGED <<a_track_index, a_preferred, attempts>>
       ELSE LET chosen == SelectTrackIndex(ts, a_preferred)
            IN IF chosen = None THEN Finish("False")
               ELSE /\ a_track_index' = chosen
                    /\ pc' = "A_run"
                    /\ UNCHANGED <<a_preferred, attempts, result>>

\* the stream indices a probe reported as subtitle streams
ReportedByProbe(out) ==
    {out.streams[i].index : i \in {j \in DOMAIN out.streams : IsSubtitleEntry(out.streams[j])}}

ReportedByDump(dump) ==
    {dump[i].n : i \in {j \in DOMAIN dump : IsSubtitleLine(dump[j])}}

\* list_subtitle_tracks, method 1: the structured probe
ListFfprobe ==
    /\ pc = "L_ffprobe"
    /\ \E integrity \in IntegrityOutcomes, out \in ProbeOutputs(video) :
          LET r == get_subtitle_tracks_with_ffprobe(integrity, out)
          IN IF r.raised
             THEN /\ pc' = "L_ffmpeg"
                  /\ listing' = [ffprobe |-> "raised", ffmpeg |-> "notrun", reported |-> {},
                                 probe |-> ProbeEnd(integrity, out)]
                  /\ caught' = TRUE
                  /\ UNCHANGED <<tracks, a_track_index, a_preferred, attempts, result>>
             ELSE /\ listing' = [ffprobe |-> "returned", ffmpeg |-> "notrun",
                                 reported |-> ReportedByProbe(out),
                                 probe |-> ProbeEnd(integrity, out)]
                  /\ caught' = caught
                  /\ ListReturn(r.tracks)
    /\ UNCHANGED <<video, file, entry, track_index, preferred_languages, maps,
                   c_streams, c_tried, q_tracks, q_preferred, q_best, q_returned, validatorVars, provisionerVars, batchVars, exportVars, loggerVars>>

\* list_subtitle_tracks, method 2 and the default: the heuristic text scan
ListFfmpeg ==
    /\ pc = "L_ffmpeg"
    /\ \E integrity \in IntegrityOutcomes, dump \in DumpOutputs(video) :
          LET r == get_subtitle_tracks_with_ffmpeg(integrity, dump)
          IN /\ listing' = [ffprobe |-> "raised",
                            ffmpeg |-> IF r.raised THEN "raised" ELSE "returned",
                            reported |-> IF r.raised THEN {} ELSE ReportedByDump(dump),
                            probe |-> "handled"]
             /\ ListReturn(ListAfterFfmpeg(r))
    /\ UNCHANGED <<video, file, entry, track_index, preferred_languages, maps,
                   c_streams, c_tried, caught, q_tracks, q_preferred, q_best, q_returned, validatorVars, provisionerVars, batchVars, exportVars, loggerVars>>

MapCall(target) == [attempt |-> Len(attempts), target |-> target]

\* extract_subtitle_auto: the tool runs with -map 0:s:<track_index>
AutoRun ==
    /\ pc = "A_run"
    /\ LET target == SubtitleOrdinal(Val(a_track_index))
       IN /\ maps' = maps \cup {MapCall(target)}
          /\ \E a \in {MapAttempt(o, extract_subtitle_auto_except) :
                          o \in RunOutcomes(video, target, file)} :
                /\ file' = a.file
                /\ caught' = (caught \/ a.caught)
                /\ Finish(a.outcome)
    /\ UNCHANGED <<video, entry, track_index, preferred_languages, tracks, listing,
                   c_streams, c_tried, q_tracks, q_preferred, q_best, q_returned, validatorVars, provisionerVars, batchVars, exportVars, loggerVars>>

\* extract_subtitle_simple: the integrity check, then the tool with -map 0:s:0
Simple ==
    /\ pc = "B"
    /\ \E integrity \in IntegrityOutcomes :
          IF ~integrity
          THEN Finish("False") /\ UNCHANGED <<file, maps, caught>>
          ELSE LET target == SubtitleOrdinal(0)
               IN /\ maps' = maps \cup {MapCall(target)}
                  /\ \E a \in {MapAttempt(o, extract_subtitle_simple_except) :
                                  o \in RunOutcomes(video, target, file)} :
                        /\ file' = a.file
                        /\ caught' = (caught \/ a.caught)
                        /\ Finish(a.outcome)
    /\ UNCHANGED <<video, entry, track_index, preferred_languages, tracks, listing,
                   c_streams, c_tried, q_tracks, q_preferred, q_best, q_returned, validatorVars, provisionerVars, batchVars, exportVars, loggerVars>>

\* extract_subtitle_force: the integrity check and the stream dump
ForceInfo ==
    /\ pc = "C"
    /\ \E integrity \in IntegrityOutcomes, dump \in DumpOutputs(video) :
          LET streams == AllStreamIndices(dump)
          IN IF ~integrity \/ streams = << >>
             THEN Finish("False") /\ UNCHANGED <<c_streams, c_tried>>
             ELSE /\ c_streams' = streams
                  /\ c_tried' = << >>
                  /\ pc' = "C_try"
                  /\ UNCHANGED <<a_track_index, a_preferred, attempts, result>>
    /\ UNCHANGED <<video, file, entry, track_index, preferred_languages, tracks,
                   listing, maps, caught, q_tracks, q_preferred, q_best, q_returned, validatorVars, provisionerVars, batchVars, exportVars, loggerVars>>

\* extract_subtitle_force: one pass of the loop, on the next stream index
ForceTry ==
    /\ pc = "C_try"
    /\ LET target == AbsoluteStream(Head(c_streams))
       IN /\ maps' = maps \cup {MapCall(target)}
          /\ \E p \in {ForcePass(o, readerr, rmerr) :
                          o \in RunOutcomes(video, target, file),
                          readerr \in BOOLEAN, rmerr \in BOOLEAN} :
                LET a == p.attempt
                IN /\ file' = a.file
                   /\ c_tried' = Append(c_tried, [stream |-> Head(c_streams),
                                                  passed |-> p.passed])
                   /\ caught' = (caught \/ a.caught)
                   /\ IF a.step = "hit"
                      THEN Finish("True") /\ c_streams' = << >>
                      ELSE IF Len(c_streams) = 1
                      THEN Finish("False") /\ c_streams' = << >>
                      ELSE /\ c_streams' = Tail(c_streams)
                           /\ UNCHANGED <<pc, a_track_index, a_preferred, attempts, result>>
    /\ UNCHANGED <<video, entry, track_index, preferred_languages, tracks, listing,
                   q_tracks, q_preferred, q_best, q_returned, validatorVars, provisionerVars, batchVars, exportVars, loggerVars>>

\* the call has returned; the process is ready for the next one
Return ==
    /\ pc = "done"
    /\ pc' = "idle"
    /\ entry' = "none"
    /\ track_index' = None
    /\ preferred_languages' = None
    /\ a_track_index' = None
    /\ a_preferred' = None
    /\ tracks' = None
    /\ listing' = NotListed
    /\ attempts' = << >>
    /\ maps' = {}
    /\ c_streams' = << >>
    /\ c_tried' = << >>
    /\ caught' = FALSE
    /\ result' = "none"
    /\ UNCHANGED <<video, file, q_tracks, q_preferred, q_best, q_returned, validatorVars, provisionerVars, batchVars, exportVars, loggerVars>>

Next ==
    \/ CallExtract
    \/ CallList
    \/ AutoIntegrity
    \/ ListFfprobe
    \/ ListFfmpeg
    \/ AutoRun
    \/ Simple
    \/ ForceInfo
    \/ ForceTry
    \/ Return

Spec == Init /\ [][Next]_vars

\* The extraction engine on one container of five streams whose only
\* subtitle stream is at absolute index 3.

ScenarioVideo == <<Video, Video, Video, SubEng, Video>>

InitScenario ==
    /\ video = ScenarioVideo
    /\ file = "absent"
    /\ pc = "idle"
    /\ entry = "none"
    /\ track_index = None
    /\ preferred_languages = None
    /\ a_track_index = None
    /\ a_preferred = None
    /\ tracks = None
    /\ listing = NotListed
    /\ attempts = << >>
    /\ maps = {}
    /\ c_streams = << >>
    /\ c_tried = << >>
    /\ caught = FALSE
    /\ result = "none"
    /\ q_tracks = << >>
    /\ q_preferred = None
    /\ q_best = None
    /\ q_returned = << >>
    /\ ValidatorIdle
    /\ ProvisionerIdle
    /\ BatchIdle
    /\ ExportIdle
    /\ LoggerIdle

SpecScenario == InitScenario /\ [][Next]_vars

----------------------------------------------------------------------------
\* find_best_subtitle_track on its own: the arguments are drawn at the start,
\* the call is one step.

TrackLanguages == {S_eng, S_Kor, S_und}

TrackTitles == {S_empty, S_English}

PreferredPool == {S_ENG, S_kor, S_en}

\* the track lists a listing can return: index is the position in the list
TrackLists ==
    {[i \in DOMAIN ls |-> Track(i - 1, i, ls[i][1], "subrip", ls[i][2])] :
        ls \in SeqsUpTo(TrackLanguages \X TrackTitles, MaxTracks)}

PreferenceLists == {None} \cup {Some(p) : p \in SeqsUpTo(PreferredPool, MaxPrefs)}

InitSelect ==
    /\ video = << >>
    /\ file = "absent"
    /\ pc = "select"
    /\ entry = "find_best"
    /\ track_index = None
    /\ preferred_languages = None
    /\ a_track_index = None
    /\ a_preferred = None
    /\ tracks = None
    /\ listing = NotListed
    /\ attempts = << >>
    /\ maps = {}
    /\ c_streams = << >>
    /\ c_tried = << >>
    /\ caught = FALSE
    /\ result = "none"
    /\ q_tracks \in TrackLists
    /\ q_preferred \in PreferenceLists
    /\ q_best = None
    /\ q_returned = << >>
    /\ ValidatorIdle
    /\ ProvisionerIdle
    /\ BatchIdle
    /\ ExportIdle
    /\ LoggerIdle

\* find_best_subtitle_track(tracks, preferred_languages) runs and returns
FindBest ==
    /\ pc \in {"select", "selected"}
    /\ Len(q_returned) < MaxCalls
    /\ pc' = "selected"
    /\ q_best' = find_best_subtitle_track(q_tracks, q_preferred)
    /\ q_returned' = Append(q_returned, q_best')
    /\ result' = "returned"
    /\ UNCHANGED <<video, file, entry, track_index, preferred_languages,
                   a_track_index, a_preferred, tracks, listing, attempts, maps,
                   c_streams, c_tried, caught, q_tracks, q_preferred, validatorVars, provisionerVars, batchVars, exportVars, loggerVars>>

NextSelect == FindBest

SpecSelect == InitSelect /\ [][NextSelect]_vars

----------------------------------------------------------------------------
\* verify_subtitle_file on its own: the file is drawn at the start, the call
\* is one step.

\* '1'
S_1 == <<"1">>

\* '0'
S_0 == <<"0">>

\* '00:00:01,000 --> 00:00:02,000'
S_time ==
    <<"0", "0", ":", "0", "0", ":", "0", "1", ",", "0", "0", "0",
      " ", "-", "-", ">", " ", "0", "0", ":", "0", "0", ":", "0",
      "2", ",", "0", "0", "0">>

\* '00:00:01.000 --> 00:00:02.000'
S_time_dots ==
    <<"0", "0", ":", "0", "0", ":", "0", "1", ".", "0", "0", "0",
      " ", "-", "-", ">", " ", "0", "0", ":", "0", "0", ":", "0",
      "2", ".", "0", "0", "0">>

\* 'Hello'
S_Hello == <<"H", "e", "l", "l", "o">>

\* the lines files are written from; the empty one is a blank line
LinePool == {S_1, S_0, S_time, S_time_dots, S_Hello, S_empty}

\* the text of a file whose lines are ls, each ended by "\n"
RECURSIVE Unlines(_)
Unlines(ls) ==
    IF ls = << >> THEN << >> ELSE Head(ls) \o <<"\n">> \o Unlines(Tail(ls))

TextFile(content) == [kind |-> "text", content |-> content]

\* the files at srt_file: text files of up to MaxLines lines, the last line
\* ended by "\n" or not, and the files open() or read() fail on
VerifyFiles ==
    {TextFile(Unlines(ls)) : ls \in SeqsUpTo(LinePool, MaxLines)}
      \cup {TextFile(SubSeq(Unlines(ls), 1, Len(Unlines(ls)) - 1)) :
               ls \in {l \in SeqsUpTo(LinePool, MaxLines) : l # << >> /\ l[Len(l)] # << >>}}
      \cup {[kind |-> k, content |-> << >>] : k \in {"missing", "unreadable", "undecodable"}}

\* the engine is not running
EngineIdle ==
    /\ video = << >>
    /\ file = "absent"
    /\ track_index = None
    /\ preferred_languages = None
    /\ a_track_index = None
    /\ a_preferred = None
    /\ tracks = None
    /\ listing = NotListed
    /\ attempts = << >>
    /\ maps = {}
    /\ c_streams = << >>
    /\ c_tried = << >>
    /\ caught = FALSE
    /\ q_tracks = << >>
    /\ q_preferred = None
    /\ q_best = None
    /\ q_returned = << >>

engineVars == <<video, file, track_index, preferred_languages, a_track_index,
                a_preferred, tracks, listing, attempts, maps, c_streams, c_tried, caught,
                q_tracks, q_preferred, q_best, q_returned>>

InitVerify ==
    /\ EngineIdle
    /\ pc = "verify"
    /\ entry = "verify_subtitle_file"
    /\ result = "none"
    /\ v_file \in VerifyFiles
    /\ v_result = None
    /\ ProvisionerIdle
    /\ BatchIdle
    /\ ExportIdle
    /\ LoggerIdle

\* verify_subtitle_file(srt_file) runs and returns
Verify ==
    /\ pc = "verify"
    /\ pc' = "verified"
    /\ v_result' = Some(verify_subtitle_file(v_file))
    /\ result' = "returned"
    /\ UNCHANGED <<engineVars, entry, v_file, provisionerVars, batchVars, exportVars, loggerVars>>

NextVerify == Verify

SpecVerify == InitVerify /\ [][NextVerify]_vars

----------------------------------------------------------------------------
\* ffmpeg_utils on its own: one process that calls the resolvers, the command
\* runners and the integrity check one after the other.  The binaries on
\* disk are drawn at the start; after that only a download changes them.

\* the disk on which the binaries of the set present are in the states given
DiskWith(present, states) ==
    [q \in BinaryPaths |-> IF q \in present THEN states[q] ELSE "absent"]

\* the disks with at most MaxBinaries tool binaries.  An ffprobe is drawn only
\* beside an ffmpeg: the code looks for ffprobe nowhere else.
InitialBins ==
    UNION {{DiskWith(present, states) : states \in [present -> BinStates \ {"absent"}]} :
              present \in {P \in SUBSET BinaryPaths :
                  /\ Cardinality(P) <= MaxBinaries
                  /\ \A q \in P : q.name = "ffprobe" => Path(q.dir, "ffmpeg") \in P}}

InitTools ==
    /\ EngineIdle
    /\ ValidatorIdle
    /\ BatchIdle
    /\ ExportIdle
    /\ LoggerIdle
    /\ pc = "tools"
    /\ entry = "ffmpeg_utils"
    /\ result = "none"
    /\ ffmpeg_path_cache = None
    /\ ffprobe_path_cache = None
    /\ ffmpeg_verified = FALSE
    /\ bin \in InitialBins
    /\ probed = {}
    /\ handle = None
    /\ call = NoCall

\* the module state a call starts from, with the outcomes of its downloads
Start(plan) ==
    [ffmpeg_path_cache |-> ffmpeg_path_cache,
     ffprobe_path_cache |-> ffprobe_path_cache,
     ffmpeg_verified |-> ffmpeg_verified,
     bin |-> bin,
     probed |-> probed,
     events |-> << >>,
     dls |-> plan]

\* what a call leaves behind, the downloads that did not happen left out
Done(r) == [r EXCEPT !.st.dls = << >>]

\* the function fn of ffmpeg_utils, called in the state st
Call(fn, st) ==
    CASE fn = "get_ffmpeg_executable" -> get_ffmpeg_executable(st)
      [] fn = "get_ffprobe_executable" -> get_ffprobe_executable(st)
      [] fn = "check_ffmpeg_integrity" -> check_ffmpeg_integrity(st)

\* the ways the function fn can end when called now: one for each outcome of
\* its downloads, and only one when it ends without a download
Ends(ends) ==
    LET any == ends[CHOOSE plan \in DownloadPlans : TRUE]
    IN IF \A i \in DOMAIN any.st.events : any.st.events[i].op # "download"
       THEN {any}
       ELSE {ends[plan] : plan \in DownloadPlans}

Outcomes(fn) == Ends([plan \in DownloadPlans |-> Done(Call(fn, Start(plan)))])

\* the local ffmpeg_path of check_ffmpeg_integrity when it returned
LocalFfmpegPath(r) == IF "ffmpeg_path" \in DOMAIN r THEN r.ffmpeg_path ELSE None

\* the call fn has ended as r: the globals, the disk and the record of the
\* call are updated
Commit(fn, r, path, res, cmd) ==
    /\ ffmpeg_path_cache' = r.st.ffmpeg_path_cache
    /\ ffprobe_path_cache' = r.st.ffprobe_path_cache
    /\ ffmpeg_verified' = r.st.ffmpeg_verified
    /\ bin' = r.st.bin
    /\ probed' = r.st.probed
    /\ call' = [fn |-> fn, path |-> path, result |-> res, events |-> r.st.events,
                cmd |-> cmd, cache |-> ffmpeg_path_cache, handle |-> handle,
                ffmpeg_path |-> LocalFfmpegPath(r)]
    /\ UNCHANGED <<engineVars, pc, entry, result, validatorVars, batchVars, exportVars, loggerVars>>

\* some caller calls get_ffmpeg_executable()
GetFfmpeg ==
    /\ pc = "tools"
    /\ \E r \in Outcomes("get_ffmpeg_executable") :
          /\ Commit("get_ffmpeg_executable", r, r.ret, NoCall.result, NoCall.cmd)
          /\ handle' = IF handle = None /\ r.ret # None /\ r.ret \subseteq r.st.probed
                       THEN r.ret ELSE handle

\* some caller calls get_ffprobe_executable()
GetFfprobe ==
    /\ pc = "tools"
    /\ \E r \in Outcomes("get_ffprobe_executable") :
          /\ Commit("get_ffprobe_executable", r, r.ret, NoCall.result, NoCall.cmd)
          /\ UNCHANGED handle

\* some caller calls run_ffmpeg_command(cmd): the tool is resolved, then the
\* command is run
RunFfmpeg ==
    /\ pc = "tools"
    /\ \E got \in Outcomes("get_ffmpeg_executable"), cmd \in Commands("ffmpeg") :
          \E r \in {RunResolved(got, "ffmpeg", cmd, px) : px \in ProcessOutcomes} :
             /\ Commit("run_ffmpeg_command", r, r.resolved, r.ret, cmd)
             /\ UNCHANGED handle

\* some caller calls run_ffprobe_command(cmd)
RunFfprobe ==
    /\ pc = "tools"
    /\ \E got \in Outcomes("get_ffprobe_executable"), cmd \in Commands("ffprobe") :
          \E r \in {RunResolved(got, "ffprobe", cmd, px) : px \in ProcessOutcomes} :
             /\ Commit("run_ffprobe_command", r, r.resolved, r.ret, cmd)
             /\ UNCHANGED handle

\* some caller calls check_ffmpeg_integrity(), which verifies again what the
\* caches hold
CheckIntegrity ==
    /\ pc = "tools"
    /\ \E r \in Outcomes("check_ffmpeg_integrity") :
          /\ Commit("check_ffmpeg_integrity", r, r.ret, NoCall.result, NoCall.cmd)
          /\ handle' = None

NextTools ==
    \/ GetFfmpeg
    \/ GetFfprobe
    \/ RunFfmpeg
    \/ RunFfprobe
    \/ CheckIntegrity

SpecTools == InitTools /\ [][NextTools]_vars

----------------------------------------------------------------------------
\* The batch workers: TranslationWorker.run (batch_subs_gemini.py:327-480,
\* gemini_srt_gui.py:267-360) and main (main.py:68-123).  One step is what the
\* worker does up to its loop, one pass of the loop up to the point where it
\* asks the user for a track, the connection of its reply handlers, the main
\* thread's handling of the request, or the rest of the pass after the reply.

Workers == {"batch_subs_gemini", "gemini_srt_gui", "main"}

\* the file names, in their sort order
FileNames == 1..MaxFiles

\* sorted(glob.glob(mkv_pattern))
sorted(S) ==
    [k \in 1..Cardinality(S) |-> CHOOSE x \in S : Cardinality({y \in S : y < x}) = k - 1]

\* the worker calls ffmpeg_utils.get_ffmpeg_executable() before anything else
\* and returns when there is no ffmpeg
ChecksTool(w) == w # "main"

\* the worker's loop starts with `if not self.is_running: break`
HasStopFlag(w) == w # "main"

\* the worker asks the user for a track when the extraction has failed and
\* the listing is not empty
AsksForTrack(w) == w = "batch_subs_gemini"

\* whether list_subtitle_tracks returns a list that is not empty: without the
\* tool both of its methods raise and it returns its one default track
TrackListings(w, tool) ==
    IF ~AsksForTrack(w) THEN {FALSE}
    ELSE IF tool = "gone" THEN {TRUE}
    ELSE BOOLEAN

\* what the worker's extract_subtitle does.  The GUIs' wrapper returns a bool
\* and catches every exception; without the tool every strategy fails.
\* main.py's runs ffmpeg with check=True and catches CalledProcessError only:
\* it raises when ffmpeg cannot be started, and when the stderr of a failed
\* ffmpeg is not UTF-8.
ExtractOutcomes(w, tool) ==
    IF w = "main"
    THEN (IF tool = "gone" THEN {"raised"} ELSE {"True", "False", "raised"})
    ELSE (IF tool = "gone" THEN {"False"} ELSE {"True", "False"})

\* TranslationWorker.preferred_languages (batch_subs_gemini.py:323,
\* gemini_srt_gui.py:264)
WorkerPreferred(w) ==
    IF w = "batch_subs_gemini" THEN <<S_eng, S_en, S_und>> ELSE <<S_eng, S_en>>

\* a Python value handed over as an argument: an int, or a list of str
PyInt(k) == [kind |-> "int", int |-> k, list |-> << >>]

PyList(l) == [kind |-> "list", int |-> 0, list |-> l]

\* the list a value is, where a list is expected
ListOf(o) == IF o = None THEN None ELSE Some(Val(o).list)

\* the parameters track_index and preferred_languages of
\* extract_subtitle(video_file, output_srt, track_index=None,
\* preferred_languages=None), bound to the positional arguments that follow
\* the two paths
BindExtract(args) ==
    [track_index |-> IF Len(args) >= 1 THEN args[1] ELSE None,
     preferred_languages |-> IF Len(args) >= 2 THEN args[2] ELSE None]

\* the positional arguments the worker passes after the two paths: at its
\* first call of a file (batch_subs_gemini.py:400, gemini_srt_gui.py:330), and
\* at the call with the track the user selected (batch_subs_gemini.py:444)
FirstCallArgs(w) ==
    IF w = "batch_subs_gemini" THEN <<Some(PyList(WorkerPreferred(w))), None>>
    ELSE <<Some(PyList(WorkerPreferred(w)))>>

SelectedCallArgs(k) == <<Some(PyInt(k))>>

\* one call of the GUIs' extract_subtitle on the file f with the parameters
\* bound: the trackIndex it puts into `-map 0:s:<trackIndex>` at its explicit
\* attempt (None when it makes none), and the preference list it hands on to
\* find_best_subtitle_track through extract_subtitle_auto
GuiExtractCall(f, bound) ==
    [file |-> f,
     track_index |-> bound.track_index,
     map |-> IF gui_extract_subtitle(bound.track_index, "call", "none") = "Ax"
             THEN AutoArgs("gui", bound.track_index,
                           ListOf(bound.preferred_languages), "Ax").ti
             ELSE None,
     preferred |-> AutoArgs("gui", bound.track_index,
                            ListOf(bound.preferred_languages), "A").pl]

\* main.py's extract_subtitle(mkv_file, output_srt): -map 0:s:0, no listing
MainExtractCall(f) ==
    [file |-> f, track_index |-> None, map |-> Some(PyInt(0)), preferred |-> None]

\* the worker's call of its extractor on the file f
ExtractCall(w, f, args) ==
    IF w = "main" THEN MainExtractCall(f) ELSE GuiExtractCall(f, BindExtract(args))

\* the track indices the dialog offers
SelectableTracks == {0, 1}

\* what translate_subtitle meets: whether srt_file exists, whether
\* verify_subtitle_file accepts it, whether gst.translate() raises
TranslateRuns == [exists : BOOLEAN, valid : BOOLEAN, raised : BOOLEAN]

\* a translate_subtitle that does not call verify_subtitle_file
translate_subtitle_no_verify(w, run) ==
    IF w = "main" THEN [started |-> TRUE, verified |-> FALSE, ret |-> "None"]
    ELSE IF ~run.exists THEN [started |-> FALSE, verified |-> FALSE, ret |-> "False"]
    ELSE [started |-> TRUE, verified |-> FALSE,
          ret |-> IF run.raised THEN "False" ELSE "True"]

\* translate_subtitle(srt_file): whether gst.translate() was started, whether
\* verify_subtitle_file was called and accepted the file, and the value
\* returned.  main.py's starts the translation without a check and returns
\* None.
translate_subtitle(w, run) ==
    IF w = "main" THEN [started |-> TRUE, verified |-> FALSE, ret |-> "None"]
    ELSE IF ~run.exists THEN [started |-> FALSE, verified |-> FALSE, ret |-> "False"]
    ELSE IF ~run.valid THEN [started |-> FALSE, verified |-> FALSE, ret |-> "False"]
    ELSE [started |-> TRUE, verified |-> TRUE,
          ret |-> IF run.raised THEN "False" ELSE "True"]

\* the translation is not called
NotTranslated == [started |-> FALSE, verified |-> FALSE, ret |-> "False"]

\* `if extract_result: translate_subtitle(srt_file)`
TranslateIf(w, extracted, run) ==
    IF extracted = "True" THEN translate_subtitle(w, run) ELSE NotTranslated

\* one pass of the loop body: the file, whether the tool was available, the
\* calls of the extractor, what the last of them did, and what the
\* translation did
Pass(f, tool, calls, extracted, tr) ==
    [file |-> f, tool |-> tool, calls |-> calls, extracted |-> extracted,
     started |-> tr.started, verified |-> tr.verified,
     translated |-> tr.ret = "True"]

\* a reply of the main thread to the worker: track_selection_done(index) or
\* track_selection_canceled
Reply(signal, index) == [signal |-> signal, index |-> index]

NoReply == Reply("none", 0)

Replies == {Reply("done", k) : k \in SelectableTracks} \cup {Reply("canceled", 0)}

InitBatch ==
    /\ EngineIdle
    /\ ValidatorIdle
    /\ ProvisionerIdle
    /\ ExportIdle
    /\ LoggerIdle
    /\ pc = "batch"
    /\ entry = "worker"
    /\ result = "none"
    /\ b_worker \in Workers
    /\ b_found \in SUBSET FileNames
    /\ mkv_files = << >>
    /\ b_pc = "start"
    /\ b_index = 0
    /\ is_running = TRUE
    /\ b_tool \in {"ok", "gone"}
    /\ b_processed = << >>
    /\ b_end = "none"
    /\ b_slots = FALSE
    /\ b_main = "idle"
    /\ b_reply = NoReply

\* the worker returns, or leaves its loop; the finally clause emits finished
End(how) ==
    /\ b_pc' = "ended"
    /\ b_end' = how

\* the worker up to its loop: the check of the tool, the list of the files
RunStart ==
    /\ b_pc = "start"
    /\ IF ChecksTool(b_worker) /\ b_tool = "gone"
       THEN End("no_tool") /\ UNCHANGED <<mkv_files, b_index>>
       ELSE /\ mkv_files' = sorted(b_found)
            /\ IF b_found = {}
               THEN End("no_files") /\ UNCHANGED b_index
               ELSE b_pc' = "loop" /\ b_index' = 1 /\ UNCHANGED b_end
    /\ UNCHANGED <<engineVars, pc, entry, result, validatorVars, provisionerVars,
                   exportVars, loggerVars,
                   b_worker, b_found, is_running, b_tool, b_processed, b_slots,
                   b_main, b_reply>>

\* the end of a pass of the loop body: the next file, or the end of the loop
FinishFile(pass) ==
    /\ b_processed' = Append(b_processed, pass)
    /\ IF pass.extracted = "raised"
       THEN End("raised") /\ UNCHANGED b_index
       ELSE IF b_index = Len(mkv_files)
       THEN End("completed") /\ UNCHANGED b_index
       ELSE b_pc' = "loop" /\ b_index' = b_index + 1 /\ UNCHANGED b_end

\* the first call of the extractor on the current file
FirstCall == ExtractCall(b_worker, mkv_files[b_index], FirstCallArgs(b_worker))

\* one pass of the loop: the stop flag, the listing, the extraction, and the
\* translation, unless the user is asked for a track first: then the request
\* is queued for the main thread (QMetaObject.invokeMethod with a
\* QueuedConnection on the worker object, which lives in the main thread)
Iterate ==
    /\ b_pc = "loop"
    /\ IF HasStopFlag(b_worker) /\ ~is_running
       THEN End("stopped") /\ UNCHANGED <<b_index, b_processed, b_main>>
       ELSE \E listed \in TrackListings(b_worker, b_tool),
               x \in ExtractOutcomes(b_worker, b_tool),
               run \in TranslateRuns :
               IF x = "False" /\ listed /\ AsksForTrack(b_worker)
               THEN /\ b_pc' = "invoked"
                    /\ b_main' = "queued"
                    /\ UNCHANGED <<b_index, b_processed, b_end>>
               ELSE /\ FinishFile(Pass(mkv_files[b_index], b_tool, <<FirstCall>>, x,
                                       TranslateIf(b_worker, x, run)))
                    /\ UNCHANGED b_main
    /\ UNCHANGED <<engineVars, pc, entry, result, validatorVars, provisionerVars,
                   exportVars, loggerVars,
                   b_worker, b_found, mkv_files, is_running, b_tool, b_slots, b_reply>>

\* the worker thread between the request and its wait: it creates the event
\* loop, connects on_track_selected and on_selection_canceled to the reply
\* signals and enters wait_loop.exec()
Connect ==
    /\ b_pc = "invoked"
    /\ b_slots' = TRUE
    /\ b_pc' = "wait"
    /\ UNCHANGED <<engineVars, pc, entry, result, validatorVars, provisionerVars,
                   exportVars, loggerVars,
                   b_worker, b_found, mkv_files, b_index, is_running, b_tool,
                   b_processed, b_end, b_main, b_reply>>

\* the main thread runs the queued requestTrackSelection: the signal
\* request_track_selection calls show_track_selection_dialog, which emits
\* track_selection_done or track_selection_canceled when the dialog is closed
\* or an exception is caught.  The emitted signal is queued for the worker
\* thread if a handler is connected, and has no effect otherwise.
ShowDialog ==
    /\ b_main = "queued"
    /\ b_main' = "idle"
    /\ \E reply \in Replies : b_reply' = IF b_slots THEN reply ELSE b_reply
    /\ UNCHANGED <<engineVars, pc, entry, result, validatorVars, provisionerVars,
                   exportVars, loggerVars,
                   b_worker, b_found, mkv_files, b_pc, b_index, is_running, b_tool,
                   b_processed, b_end, b_slots>>

\* the call with the track the user selected
SelectedCall == ExtractCall(b_worker, mkv_files[b_index], SelectedCallArgs(b_reply.index))

\* the reply has ended wait_loop.exec(): the handlers are disconnected, the
\* extraction is tried again with the selected track, or the file is skipped
Answer ==
    /\ b_pc = "wait"
    /\ b_reply # NoReply
    /\ b_reply' = NoReply
    /\ b_slots' = FALSE
    /\ \E x \in ExtractOutcomes(b_worker, b_tool), run \in TranslateRuns :
          IF b_reply.signal = "done"
          THEN FinishFile(Pass(mkv_files[b_index], b_tool, <<FirstCall, SelectedCall>>,
                               x, TranslateIf(b_worker, x, run)))
          ELSE FinishFile(Pass(mkv_files[b_index], b_tool, <<FirstCall>>, "False",
                               NotTranslated))
    /\ UNCHANGED <<engineVars, pc, entry, result, validatorVars, provisionerVars,
                   exportVars, loggerVars,
                   b_worker, b_found, mkv_files, is_running, b_tool, b_main>>

\* TranslationWorker.stop()
Stop ==
    /\ b_pc \in {"start", "loop", "invoked", "wait"}
    /\ HasStopFlag(b_worker)
    /\ is_running
    /\ is_running' = FALSE
    /\ UNCHANGED <<engineVars, pc, entry, result, validatorVars, provisionerVars,
                   exportVars, loggerVars,
                   b_worker, b_found, mkv_files, b_pc, b_index, b_tool, b_processed,
                   b_end, b_slots, b_main, b_reply>>

\* ffmpeg becomes unavailable: its binary is gone or broken and cannot be
\* downloaded
ToolLost ==
    /\ b_pc \in {"start", "loop", "invoked", "wait"}
    /\ b_tool = "ok"
    /\ b_tool' = "gone"
    /\ UNCHANGED <<engineVars, pc, entry, result, validatorVars, provisionerVars,
                   exportVars, loggerVars,
                   b_worker, b_found, mkv_files, b_pc, b_index, is_running,
                   b_processed, b_end, b_slots, b_main, b_reply>>

NextBatch ==
    \/ RunStart
    \/ Iterate
    \/ Connect
    \/ ShowDialog
    \/ Answer
    \/ Stop
    \/ ToolLost

SpecBatch == InitBatch /\ [][NextBatch]_vars

\* The worker thread goes on running, the main thread runs what is queued
\* for it, and the modal dialog is closed.
SpecBatchLive ==
    /\ InitBatch
    /\ [][NextBatch]_vars
    /\ WF_vars(RunStart)
    /\ WF_vars(Iterate)
    /\ WF_vars(Connect)
    /\ WF_vars(ShowDialog)
    /\ WF_vars(Answer)

----------------------------------------------------------------------------
\* extract_all_subtitles (subtitle_utils.py:378-423): the listing is drawn at
\* the start of the call, each pass of its loop is one step.

\* the characters re.sub(r'[\\/*?:"<>|]', '', title) removes
TitleCharsRemoved == {"\\", "/", "*", "?", ":", "\"", "<", ">", "|"}

IsKept(c) == c \notin TitleCharsRemoved

clean_title(title) == SelectSeq(title, IsKept)

\* output_file for a track, the directory, the name of the video and the
\* extension left out: "_<language>", and "_<clean_title>" when the title is
\* not empty
OutputFile(track) ==
    <<"_">> \o track.language \o
        (IF track.title # << >> THEN <<"_">> \o clean_title(track.title) ELSE << >>)

InitExport ==
    /\ EngineIdle
    /\ ValidatorIdle
    /\ ProvisionerIdle
    /\ BatchIdle
    /\ LoggerIdle
    /\ pc = "export"
    /\ entry = "extract_all_subtitles"
    /\ result = "none"
    /\ ExportIdle

\* extract_all_subtitles is called on a video whose output directory holds
\* no subtitle file yet: list_subtitle_tracks returns, and the call returns
\* [] at once when the listing is empty
ExportStart ==
    /\ pc \in {"export", "exported"}
    /\ \E ts \in TrackLists :
          /\ tracks' = Some(ts)
          /\ x_todo' = ts
          /\ x_disk' = [p \in {OutputFile(ts[i]) : i \in DOMAIN ts} |-> "absent"]
          /\ pc' = IF ts = << >> THEN "exported" ELSE "export_loop"
    /\ x_calls' = << >>
    /\ extracted_files' = << >>
    /\ result' = "none"
    /\ UNCHANGED <<video, file, entry, track_index, preferred_languages, a_track_index,
                   a_preferred, listing, attempts, maps, c_streams, c_tried, caught,
                   q_tracks, q_preferred, q_best, q_returned, validatorVars,
                   provisionerVars, batchVars, loggerVars>>

\* one call extract_subtitle(video_file, output_file, track_index) of the
\* loop: whether it ran the tool, and what it returned
ExportCall(track, ran, returned) ==
    [track_index |-> track.index, output_file |-> OutputFile(track), ran |-> ran,
     returned |-> returned]

\* the pass of the loop has called extract_subtitle, which has ended as c and
\* left f at the output path
ExportPassed(c, f) ==
    /\ x_calls' = Append(x_calls, c)
    /\ x_disk' = [x_disk EXCEPT ![c.output_file] = f]
    /\ extracted_files' = IF c.returned = "True"
                          THEN Append(extracted_files, c.output_file)
                          ELSE extracted_files

\* one pass of the loop `for track in tracks`: extract_subtitle is called
\* with the track's index.  Where the orchestrator returns without starting a
\* strategy nothing is run and nothing is written; where it starts one, the
\* tool is run and a strategy returns True only on a file that is not empty.
ExportTrack ==
    /\ pc = "export_loop"
    /\ LET track == Head(x_todo)
           first == extract_subtitle(Some(track.index), "call", "none")
       IN IF IsReturn(first)
          THEN ExportPassed(ExportCall(track, FALSE, first), x_disk[OutputFile(track)])
          ELSE \E f \in FileStates, ok \in BOOLEAN :
                  /\ ok => NonEmpty(f)
                  /\ ExportPassed(ExportCall(track, TRUE, IF ok THEN "True" ELSE "False"), f)
    /\ x_todo' = Tail(x_todo)
    /\ pc' = IF Len(x_todo) = 1 THEN "exported" ELSE "export_loop"
    /\ result' = IF Len(x_todo) = 1 THEN "returned" ELSE result
    /\ UNCHANGED <<video, file, entry, track_index, preferred_languages, a_track_index,
                   a_preferred, tracks, listing, attempts, maps, c_streams, c_tried,
                   caught, q_tracks, q_preferred, q_best, q_returned, validatorVars,
                   provisionerVars, batchVars, loggerVars>>

NextExport ==
    \/ ExportStart
    \/ ExportTrack

SpecExport == InitExport /\ [][NextExport]_vars

----------------------------------------------------------------------------
\* LoggerManager (logger_utils.py:16-157): the threads that call add_message
\* and the processor thread.  The queue is a queue.Queue without a maximum
\* size, whose qsize(), get_nowait() and put() are atomic each; the model
\* keeps the number of messages it holds.  One step is one of these calls
\* with the statements around it.

\* LoggerManager._max_queue_size
max_queue_size == 1000

\* LoggerManager._batch_size
batch_size == 10

\* the threads that log
Loggers == 1..MaxThreads

InitLogger ==
    /\ EngineIdle
    /\ ValidatorIdle
    /\ ProvisionerIdle
    /\ BatchIdle
    /\ ExportIdle
    /\ pc = "logger"
    /\ entry = "LoggerManager"
    /\ result = "none"
    /\ message_queue \in 0..max_queue_size
    /\ l_pc = [t \in Loggers |-> "idle"]
    /\ l_proc = "none"
    /\ l_taken = 0
    /\ shutdown_flag = FALSE

\* the rest of the process does not take part
LoggerFrame ==
    UNCHANGED <<engineVars, pc, entry, result, validatorVars, provisionerVars,
                batchVars, exportVars>>

\* add_message, `if self._message_queue.qsize() >= self._max_queue_size`
AddCheck(t) ==
    /\ l_pc[t] = "idle"
    /\ l_pc' = [l_pc EXCEPT ![t] = IF message_queue >= max_queue_size THEN "drop" ELSE "put"]
    /\ UNCHANGED <<message_queue, l_proc, l_taken, shutdown_flag>>
    /\ LoggerFrame

\* add_message, `self._message_queue.get_nowait()` with its handler of
\* queue.Empty
AddDrop(t) ==
    /\ l_pc[t] = "drop"
    /\ message_queue' = IF message_queue > 0 THEN message_queue - 1 ELSE message_queue
    /\ l_pc' = [l_pc EXCEPT ![t] = "put"]
    /\ UNCHANGED <<l_proc, l_taken, shutdown_flag>>
    /\ LoggerFrame

\* add_message, the filter and `self._message_queue.put(...)`: a message that
\* is empty after the filter is not put
AddPut(t) ==
    /\ l_pc[t] = "put"
    /\ \E kept \in BOOLEAN :
          message_queue' = IF kept THEN message_queue + 1 ELSE message_queue
    /\ l_pc' = [l_pc EXCEPT ![t] = "idle"]
    /\ UNCHANGED <<l_proc, l_taken, shutdown_flag>>
    /\ LoggerFrame

\* start(), called by register_consumer: the processor thread is started
StartProcessor ==
    /\ l_proc \in {"none", "stopped"}
    /\ l_proc' = "loop"
    /\ shutdown_flag' = FALSE
    /\ UNCHANGED <<message_queue, l_pc, l_taken>>
    /\ LoggerFrame

\* _message_processor, the head of its loop: the shutdown flag, and whether
\* the update interval has passed
ProcessorLoop ==
    /\ l_proc = "loop"
    /\ IF shutdown_flag THEN l_proc' = "flush"
       ELSE \E due \in BOOLEAN : l_proc' = IF due THEN "collect" ELSE "loop"
    /\ l_taken' = 0
    /\ UNCHANGED <<message_queue, l_pc, shutdown_flag>>
    /\ LoggerFrame

\* _message_processor, one pass of `for _ in range(self._batch_size)`: a
\* message is taken, or the batch is delivered when it is full or the queue
\* is empty
ProcessorTake ==
    /\ l_proc = "collect"
    /\ IF l_taken < batch_size /\ message_queue > 0
       THEN /\ message_queue' = message_queue - 1
            /\ l_taken' = l_taken + 1
            /\ UNCHANGED l_proc
       ELSE /\ l_proc' = "loop"
            /\ l_taken' = 0
            /\ UNCHANGED message_queue
    /\ UNCHANGED <<l_pc, shutdown_flag>>
    /\ LoggerFrame

\* _flush_remaining_messages, one pass of its loop
ProcessorFlush ==
    /\ l_proc = "flush"
    /\ IF message_queue > 0
       THEN message_queue' = message_queue - 1 /\ UNCHANGED l_proc
       ELSE l_proc' = "stopped" /\ UNCHANGED message_queue
    /\ UNCHANGED <<l_pc, l_taken, shutdown_flag>>
    /\ LoggerFrame

\* shutdown(): the flag is set
Shutdown ==
    /\ l_proc \in {"loop", "collect"}
    /\ ~shutdown_flag
    /\ shutdown_flag' = TRUE
    /\ UNCHANGED <<message_queue, l_pc, l_proc, l_taken>>
    /\ LoggerFrame

NextLogger ==
    \/ \E t \in Loggers : AddCheck(t)
    \/ \E t \in Loggers : AddDrop(t)
    \/ \E t \in Loggers : AddPut(t)
    \/ StartProcessor
    \/ ProcessorLoop
    \/ ProcessorTake
    \/ ProcessorFlush
    \/ Shutdown

SpecLogger == InitLogger /\ [][NextLogger]_vars

----------------------------------------------------------------------------
\* Claims about find_best_subtitle_track (checked under SpecSelect).

\* the preference list the call works with
EffectivePreferred ==
    IF q_preferred = None THEN DefaultPreferredLanguages ELSE Val(q_preferred)

\* track j's language equals the preferred language of rank i, ignoring case
LanguageMatch(j, i) == Lower(q_tracks[j].language) = Lower(EffectivePreferred[i])

\* the ranks of the preferred languages that some track matches
MatchedRanks == {i \in DOMAIN EffectivePreferred : \E j \in DOMAIN q_tracks : LanguageMatch(j, i)}

\* C10: if some track's language equals a preferred language ignoring case, the
\* track returned matches the earliest-ranked preferred language that has any
\* match, and is the earliest track of the list matching that language,
\* wherever the tracks matching later-ranked languages are.
C10_EarliestRankedLanguageWins ==
    (pc = "selected" /\ MatchedRanks # {}) =>
        \E r \in MatchedRanks :
            /\ \A i \in MatchedRanks : r <= i
            /\ \E j \in DOMAIN q_tracks :
                  /\ LanguageMatch(j, r)
                  /\ \A k \in DOMAIN q_tracks : LanguageMatch(k, r) => j <= k
                  /\ q_best = Some(q_tracks[j])

\* C10 witness: the returned track is not the first of the list, a track before
\* it matches a later-ranked preferred language, and the match needs the case
\* to be ignored
C10_Witness ==
    /\ pc = "selected"
    /\ MatchedRanks # {}
    /\ \E j \in DOMAIN q_tracks :
          /\ q_best = Some(q_tracks[j])
          /\ j > 1
          /\ \E i \in MatchedRanks : LanguageMatch(1, i) /\ ~LanguageMatch(j, i)
          /\ \A i \in DOMAIN EffectivePreferred :
                q_tracks[j].language # EffectivePreferred[i]

\* C11: find_best_subtitle_track returns None exactly when the track list is
\* empty; for a non-empty list and any preference list, the empty one
\* included, it returns an element of the list.
C11_NoneIffEmpty ==
    pc = "selected" =>
        /\ (q_best = None) <=> (q_tracks = << >>)
        /\ q_tracks # << >> => \E j \in DOMAIN q_tracks : q_best = Some(q_tracks[j])

\* C11 witness: a non-empty list, an empty preference list, no title that
\* reads as English: the last resort returns the first track
C11_Witness ==
    /\ pc = "selected"
    /\ Len(q_tracks) >= 2
    /\ q_preferred = Some(<< >>)
    /\ \A j \in DOMAIN q_tracks : ~TitleIsEnglish(q_tracks[j])
    /\ q_best = Some(q_tracks[1])

EnglishTitles == {j \in DOMAIN q_tracks : TitleIsEnglish(q_tracks[j])}

\* C28: when no track's language matches a preferred language, the track
\* returned is the first whose title has an English-indicating substring, and
\* tracks[0] when no title has one; while some track's language matches, the
\* track returned is one whose language matches.
C28_TitleThenFirstTrack ==
    (pc = "selected" /\ q_tracks # << >>) =>
        IF MatchedRanks # {}
        THEN \E j \in DOMAIN q_tracks :
                /\ q_best = Some(q_tracks[j])
                /\ \E i \in MatchedRanks : LanguageMatch(j, i)
        ELSE IF EnglishTitles # {}
             THEN q_best = Some(q_tracks[CHOOSE j \in EnglishTitles :
                                            \A k \in EnglishTitles : j <= k])
        ELSE q_best = Some(q_tracks[1])

\* C28 witness: no language matches, the first track has no English title, a
\* later one has, and that one is returned
C28_Witness ==
    /\ pc = "selected"
    /\ MatchedRanks = {}
    /\ 1 \notin EnglishTitles
    /\ \E j \in EnglishTitles : q_best = Some(q_tracks[j])

----------------------------------------------------------------------------
\* Claims about verify_subtitle_file (checked under SpecVerify).

\* the minimal single-cue SRT file: index line, timestamp-range line, one text
\* line, blank separator line
MinimalSrt == TextFile(Unlines(<<S_1, S_time, S_Hello, S_empty>>))

\* the number of lines of a text: its line terminators, and one more for a
\* last line that is not terminated
FileLineCount(content) ==
    Cardinality({i \in DOMAIN content : content[i] = "\n"})
      + (IF content # << >> /\ content[Len(content)] # "\n" THEN 1 ELSE 0)

\* C12: verify_subtitle_file returns (valid, 4) for the minimal well-formed
\* single-cue SRT file.
C12_MinimalSrtAccepted ==
    (pc = "verified" /\ v_file = MinimalSrt) =>
        v_result = Some(VerifyResult(TRUE, 4))

\* C13: verify_subtitle_file returns invalid for every file with fewer than 4
\* lines, whatever the lines contain, and the line count it reports is the
\* number of lines of the file.
C13_ShortFileInvalidWithItsLineCount ==
    (pc = "verified" /\ v_file.kind = "text" /\ FileLineCount(v_file.content) < 4) =>
        /\ ~Val(v_result).valid
        /\ Val(v_result).line_count = FileLineCount(v_file.content)

\* C14: verify_subtitle_file never raises; a missing, an unreadable or an
\* undecodable file gives (invalid, 0).
C14_NeverRaises ==
    pc = "verified" =>
        /\ ~Val(v_result).raised
        /\ v_file.kind # "text" => v_result = Some(VerifyResult(FALSE, 0))

\* C14 witness: the validator has returned for a file that cannot be decoded
C14_Witness ==
    /\ pc = "verified"
    /\ v_file.kind = "undecodable"
    /\ v_result = Some(VerifyResult(FALSE, 0))

\* the lines the validator looks at: those of the text without the
\* whitespace around it, each without the whitespace around it
CheckedLine(k) == str_strip(str_split(str_strip(v_file.content))[k])

\* the line is the decimal notation of an integer that is at least 1
PositiveInteger(line) ==
    /\ line # << >>
    /\ \A i \in DOMAIN line : line[i] \in Digits
    /\ \E i \in DOMAIN line : line[i] # "0"

\* the line starts with HH:MM:SS,mmm --> HH:MM:SS,mmm
TimestampRange(line) ==
    /\ Len(line) >= 29
    /\ \A i \in {1, 2, 4, 5, 7, 8, 10, 11, 12, 18, 19, 21, 22, 24, 25, 27, 28, 29} :
          line[i] \in Digits
    /\ \A i \in {3, 6, 20, 23} : line[i] = ":"
    /\ \A i \in {9, 26} : line[i] = ","
    /\ SubSeq(line, 13, 17) = <<" ", "-", "-", ">", " ">>

\* the validator has returned valid
ReturnedValid == pc = "verified" /\ Val(v_result).valid

\* C29: verify_subtitle_file returns valid only if the first line is a
\* positive integer and the second line matches the timestamp-range pattern.
C29_ValidOnlyIfPositiveIndexAndTimestamps ==
    ReturnedValid => PositiveInteger(CheckedLine(1)) /\ TimestampRange(CheckedLine(2))

\* C29 as amended: verify_subtitle_file returns valid only if the first line
\* is made of decimal digits, 0 included, and the second line starts with a
\* timestamp range.
C29_ValidOnlyIfDigitsAndTimestamps ==
    ReturnedValid =>
        /\ CheckedLine(1) # << >>
        /\ \A i \in DOMAIN CheckedLine(1) : CheckedLine(1)[i] \in Digits
        /\ TimestampRange(CheckedLine(2))

\* C29 witness: a file whose first line is 0 has been found valid
C29_Witness == ReturnedValid /\ CheckedLine(1) = S_0

----------------------------------------------------------------------------
\* Claims about ffmpeg_utils (checked under SpecTools).

\* the events of the last call that are of kind op
EventsOf(op) == {i \in DOMAIN call.events : call.events[i].op = op}

\* the directories whose ffmpeg was probed in the last call, in the order of
\* the probes
ProbedDirs ==
    LET ix == EventsOf("probe")
        Nth(k) == CHOOSE i \in ix : Cardinality({j \in ix : j < i}) = k - 1
    IN [k \in 1..Cardinality(ix) |-> call.events[Nth(k)].path.dir]

\* the positions of the search order `order` at which an ffmpeg is on disk,
\* and those at which it passes its version probe
PresentAt(order) == {i \in DOMAIN order : bin[Path(order[i], "ffmpeg")] # "absent"}

VerifiesAt(order) == {i \in DOMAIN order : bin[Path(order[i], "ffmpeg")] = "ok"}

\* the first position of a non-empty set of positions
First(S) == CHOOSE i \in S : \A j \in S : i <= j

\* C15: resolution examines the system PATH, then the bundled binary, then a
\* copy downloaded earlier into the local cache directory, and downloads only
\* when none of the three yields a verified binary.
C15_PathThenBundledThenCacheDir ==
    LET order == <<"path", "bundle", install_dir>>
    IN (call.fn = "get_ffmpeg_executable" /\ call.cache = None /\ VerifiesAt(order) # {}) =>
          /\ call.path = Some(Path(order[First(VerifiesAt(order))], "ffmpeg"))
          /\ EventsOf("download") = {}

\* C15 as amended: resolution examines the bundled application's bin
\* directory, the script's directory, its bin subdirectory and then the
\* directories of PATH, in that order, probing every candidate found until
\* one verifies; it returns the first that verifies and downloads exactly
\* when none of them does.  The directory downloads are installed in is not
\* examined.
C15_BundledThenScriptThenPath ==
    LET order == <<"bundle", "script", "script_bin", "path">>
        ok == VerifiesAt(order)
        seen == {i \in PresentAt(order) : ok = {} \/ i <= First(ok)}
    IN (call.fn = "get_ffmpeg_executable" /\ call.cache = None) =>
          /\ Len(ProbedDirs) = Cardinality(seen)
          /\ \A k \in DOMAIN ProbedDirs :
                \E i \in seen : /\ order[i] = ProbedDirs[k]
                                /\ Cardinality({j \in seen : j < i}) = k - 1
          /\ ok # {} => call.path = Some(Path(order[First(ok)], "ffmpeg"))
          /\ (EventsOf("download") # {}) <=> (ok = {})

\* C15 witness: the bundled ffmpeg fails its probe and the one on PATH passes
\* it: both were probed, the bundled one first, and the one on PATH was
\* returned
C15_Witness ==
    /\ call.fn = "get_ffmpeg_executable"
    /\ call.cache = None
    /\ ProbedDirs = <<"bundle", "path">>
    /\ call.path = Some(Path("path", "ffmpeg"))

\* C16: every path returned by get_ffmpeg_executable or
\* get_ffprobe_executable, from whatever source, is a path whose version
\* probe has exited with code 0 earlier in the process.
C16_ReturnedPathWasProbed ==
    (call.fn \in {"get_ffmpeg_executable", "get_ffprobe_executable"} /\ call.path # None) =>
        call.path \subseteq probed

\* C17: after get_ffmpeg_executable has returned a verified path, every later
\* call returns that path from the cache, without a version probe, a search
\* or a download, until a caller forces re-verification.
C17_VerifiedHandleIsKept ==
    (call.fn = "get_ffmpeg_executable" /\ call.handle # None) =>
        /\ call.path = call.handle
        /\ call.events = << >>

\* the last call ran no version probe of the tool that exited with 0, and
\* tried a download, and every download it tried failed
NothingWorked(tool) ==
    /\ \A i \in EventsOf("probe") :
          call.events[i].path.name = tool => call.events[i].exit # "ok"
    /\ EventsOf("download") # {}
    /\ \A i \in EventsOf("download") : call.events[i].exit = "failed"

\* the tool a function of ffmpeg_utils is about
ToolOf(fn) ==
    IF fn \in {"get_ffmpeg_executable", "run_ffmpeg_command"} THEN "ffmpeg" ELSE "ffprobe"

Resolvers == {"get_ffmpeg_executable", "get_ffprobe_executable"}

Runners == {"run_ffmpeg_command", "run_ffprobe_command"}

\* C18: when no candidate binary verifies and the download fails, the
\* resolver returns no path and does not raise, and the command runners then
\* return failure without starting a process.
C18_NoToolNoProcess ==
    /\ (call.fn \in Resolvers /\ NothingWorked(ToolOf(call.fn))) => call.path = None
    /\ (call.fn \in Runners /\ call.path = None) =>
          /\ call.result = RunResult(FALSE, NotFoundText(ToolOf(call.fn)))
          /\ EventsOf("exec") = {}

\* C18 witness: run_ffprobe_command was handed a well-formed command, the
\* resolution probed a binary that failed and tried a download that failed
C18_Witness ==
    /\ call.fn = "run_ffprobe_command"
    /\ call.cmd.argv # << >>
    /\ NothingWorked("ffprobe")
    /\ EventsOf("probe") # {}
    /\ call.path = None
    /\ ~call.result.success

\* C19: the command runners never raise: a non-zero exit gives (False,
\* output), a timeout gives (False, a text that tells of the timeout and is
\* none of the other failure texts), any other error of the execution gives
\* (False, text).
C19_RunnersNeverRaise ==
    call.fn \in Runners =>
        /\ ~call.result.raised
        /\ \A i \in EventsOf("exec") :
              /\ call.events[i].exit = "nonzero" =>
                    call.result = RunResult(FALSE, "process.stderr")
              /\ call.events[i].exit = "timeout" =>
                    /\ call.result = RunResult(FALSE, TimeoutText)
                    /\ TimeoutText \notin {NotFoundText("ffmpeg"), NotFoundText("ffprobe"),
                                           BadFormatText, "process.stderr", "str(e)"}
              /\ call.events[i].exit = "oserror" =>
                    call.result = RunResult(FALSE, "str(e)")

\* C19 witness: a process started by run_ffmpeg_command did not end within
\* the timeout
C19_Witness ==
    /\ call.fn = "run_ffmpeg_command"
    /\ \E i \in EventsOf("exec") : call.events[i].exit = "timeout"
    /\ call.result = RunResult(FALSE, TimeoutText)

\* C20: every process started by a command runner has as its first argument
\* the path the resolver returned in that call, never the bare command name
\* the caller passed.
C20_FirstArgumentIsResolvedPath ==
    call.fn \in Runners =>
        \A i \in EventsOf("exec") :
            /\ Some(call.events[i].path) = call.path
            /\ call.events[i].path # call.cmd.argv[1]
            /\ call.events[i].path.dir # ""

\* C20 witness: run_ffprobe_command was handed a command that starts with the
\* bare name and has started a process
C20_Witness ==
    /\ call.fn = "run_ffprobe_command"
    /\ call.cmd.argv # << >>
    /\ call.cmd.argv[1] = BareName("ffprobe")
    /\ EventsOf("exec") # {}

\* the version probes of the path q in the last call, and the last of them
ProbesOf(q) == {i \in EventsOf("probe") : call.events[i].path = q}

LastProbeOf(q) == CHOOSE i \in ProbesOf(q) : \A j \in ProbesOf(q) : j <= i

\* the searched locations that hold an ffmpeg and come before every location
\* whose ffmpeg passes its version probe
BeforeFirstVerified ==
    {i \in PresentAt(paths_to_check) : \A j \in VerifiesAt(paths_to_check) : i <= j}

\* C30: during resolution a candidate whose version probe exits non-zero or
\* times out is never returned, and resolution continues with the next
\* candidate location instead of stopping or failing.
C30_FailedCandidateNeverReturned ==
    /\ (call.fn \in Resolvers /\ call.path # None /\ ProbesOf(Val(call.path)) # {}) =>
          call.events[LastProbeOf(Val(call.path))].exit = "ok"
    /\ (call.fn = "get_ffmpeg_executable" /\ call.cache = None) =>
          \A i \in BeforeFirstVerified :
              ProbesOf(Path(paths_to_check[i], "ffmpeg")) # {}

----------------------------------------------------------------------------
\* Claims about extract_subtitle and list_subtitle_tracks (checked under Spec).

ExtractReturned == pc = "done" /\ entry \in {"utils", "gui"}

BothListingMethodsRaised == listing.ffprobe = "raised" /\ listing.ffmpeg = "raised"

\* C1: whenever subtitle_utils.extract_subtitle returns success, the destination
\* file exists and has size greater than 0 at the moment of return, with or
\* without an explicit track_index.
C1_SuccessMeansNonEmptyFile ==
    (pc = "done" /\ entry = "utils" /\ result = "True") =>
        (Exists(file) /\ NonEmpty(file))

\* C2: with an explicit track_index, Strategy A is run and maps exactly that
\* subtitle ordinal, the track lister and selector are never called during the
\* call, and a track_index that names no stream makes the attempt an
\* extraction failure.
C2_ExplicitTrackUsedVerbatim ==
    (ExtractReturned /\ track_index # None) =>
        /\ attempts # << >>
        /\ attempts[1].strategy = "A"
        /\ \A m \in maps :
              m.attempt = 1 => m.target = SubtitleOrdinal(Val(track_index))
        /\ tracks = None
        /\ ~TargetExists(video, SubtitleOrdinal(Val(track_index)))
              => attempts[1].outcome = "False"

\* C3: the strategies of one call run one at a time in the order A, B, C: B
\* starts only after A reported failure, C only after B reported failure, and
\* nothing starts after a strategy reported success.
C3_StrategiesStrictlySequential ==
    \A i \in DOMAIN attempts :
        /\ i < Len(attempts) => attempts[i].outcome = "False"
        /\ attempts[i].outcome = "running" => pc \notin {"idle", "done"}
        /\ attempts[i].strategy = "A" =>
              \/ i = 1
              \/ i = 2 /\ attempts[1].strategy = "A" /\ attempts[1].explicit
                       /\ ~attempts[2].explicit
        /\ attempts[i].strategy = "B" => i > 1 /\ attempts[i - 1].strategy = "A"
        /\ attempts[i].strategy = "C" => i > 1 /\ attempts[i - 1].strategy = "B"

\* C3 witness: a call that went through A, B and C, the last one succeeding
C3_Witness ==
    /\ ExtractReturned
    /\ entry = "utils"
    /\ Len(attempts) = 3
    /\ attempts[3].strategy = "C"
    /\ attempts[3].outcome = "True"
    /\ result = "True"

\* C4: extract returns success if and only if one of the strategies it
\* attempted reported success; so track_index 5 on a container with 2 subtitle
\* streams, B and C failing too, returns failure.
C4_SuccessIffSomeStrategySucceeded ==
    ExtractReturned =>
        (result = "True" <=> \E i \in DOMAIN attempts : attempts[i].outcome = "True")

\* C5: no strategy and no call of extract raises: each strategy that was run
\* returned a boolean, and so did extract.
C5_NoStrategyRaises ==
    /\ \A i \in DOMAIN attempts : attempts[i].outcome \in {"running", "True", "False"}
    /\ ExtractReturned => result \in {"True", "False"}

\* C5 witness: a strategy's handler caught an exception (the output file could
\* not be read) in a call whose listing raised nothing, and extract returned
C5_Witness ==
    /\ ExtractReturned
    /\ entry = "utils"
    /\ caught
    /\ listing.ffprobe = "returned"
    /\ result = "False"

\* C6: in Strategy A without an explicit track_index, an empty listing (no
\* track selected) makes the strategy report failure without any -map
\* extraction command being issued in that attempt.
C6_EmptyListingNoExtraction ==
    \A i \in DOMAIN attempts :
        (attempts[i].strategy = "A" /\ ~attempts[i].explicit /\ tracks = Some(<< >>)) =>
            /\ attempts[i].outcome = "False"
            /\ \A m \in maps : m.attempt # i

\* C6 witness: the listing was empty, Strategy A issued no command, and a later
\* strategy of the same call did
C6_Witness ==
    /\ ExtractReturned
    /\ tracks = Some(<< >>)
    /\ attempts[1].strategy = "A" /\ ~attempts[1].explicit
    /\ \E m \in maps : m.attempt > 1

\* C7: list_subtitle_tracks never raises; when both the structured probe and
\* the heuristic scan fail it returns an empty sequence; it never returns a
\* track that no probe reported.
C7_EmptyOnTotalFailure ==
    /\ (pc = "done" /\ entry = "list") => result = "returned"
    /\ tracks # None =>
          /\ BothListingMethodsRaised => Val(tracks) = << >>
          /\ \A j \in DOMAIN Val(tracks) :
                Val(tracks)[j].stream_index \in listing.reported

\* C7 amended: list_subtitle_tracks never raises; when both methods fail it
\* returns the one default track; otherwise it returns only tracks of streams
\* that the answering probe reported.
C7_DefaultTrackOnTotalFailure ==
    /\ (pc = "done" /\ entry = "list") => result = "returned"
    /\ tracks # None =>
          IF BothListingMethodsRaised
          THEN Val(tracks) = <<DefaultTrack>>
          ELSE \A j \in DOMAIN Val(tracks) :
                  Val(tracks)[j].stream_index \in listing.reported

\* C7 witness: both methods raised and the lister returned the default track
C7_Witness ==
    /\ pc = "done"
    /\ entry = "list"
    /\ BothListingMethodsRaised
    /\ tracks = Some(<<DefaultTrack>>)

\* C8: the tracks one list_subtitle_tracks call returns carry the index values
\* 0..N-1 in enumeration order, also when the probe's stream list holds entries
\* that are no subtitle.
C8_IndexDense ==
    tracks # None =>
        \A j \in DOMAIN Val(tracks) : Val(tracks)[j].index = j - 1

\* C9: for a container with zero subtitle streams list_subtitle_tracks returns
\* an empty sequence, whichever method answers and whatever the tools' state.
C9_NoSubtitlesListsEmpty ==
    (tracks # None /\ NSubs(video) = 0) => Val(tracks) = << >>

\* C9 amended: for a container with zero subtitle streams list_subtitle_tracks
\* returns an empty sequence whenever one of its two methods answers, and the
\* one default track when both fail.
C9_NoSubtitlesListsEmptyWhenAnswered ==
    (tracks # None /\ NSubs(video) = 0) =>
        Val(tracks) = IF BothListingMethodsRaised THEN <<DefaultTrack>> ELSE << >>

\* C9 witness: a container with streams but no subtitle, listed by the
\* heuristic scan after the structured probe failed
C9_Witness ==
    /\ pc = "done"
    /\ entry = "list"
    /\ video # << >>
    /\ NSubs(video) = 0
    /\ listing.ffmpeg = "returned"
    /\ listing.reported = {}
    /\ tracks = Some(<< >>)

\* the ends of the structured probe that are failures: the integrity check
\* failed, the command exited non-zero, its output was no JSON
FailedProbe == {"integrity", "fail", "malformed"}

\* the ends that are successes: blank output, a JSON stream list
SucceededProbe == {"blank", "json"}

\* C27: list_subtitle_tracks runs the heuristic text scan exactly when the
\* structured probe has failed (integrity failure, non-zero exit, malformed
\* output); a structured probe that succeeds, even with zero tracks, ends the
\* listing and its result is returned unchanged.
C27_ScanExactlyAfterFailedProbe ==
    /\ pc = "L_ffmpeg" => listing.probe \in FailedProbe
    /\ listing.ffmpeg # "notrun" => listing.probe = "handled"
    /\ listing.probe \in FailedProbe => pc = "L_ffmpeg" /\ tracks = None
    /\ listing.probe \in SucceededProbe =>
          /\ listing.ffmpeg = "notrun"
          /\ pc # "L_ffmpeg"
          /\ tracks # None
          /\ Len(Val(tracks)) = Cardinality(listing.reported)
          /\ \A j \in DOMAIN Val(tracks) : Val(tracks)[j].stream_index \in listing.reported
          /\ listing.probe = "blank" => Val(tracks) = << >>
          /\ entry = "list" => pc = "done" /\ result = "returned"

\* C27 witness: the structured probe answered with blank output for a
\* container that has a subtitle stream, and the empty list was returned
\* without a text scan
C27_Witness ==
    /\ entry = "list"
    /\ pc = "done"
    /\ NSubs(video) > 0
    /\ listing.probe = "blank"
    /\ listing.ffmpeg = "notrun"
    /\ tracks = Some(<< >>)

\* Strategy C is the running or the last attempt of the call, and its loop
\* has made a pass
ForceLooped ==
    /\ attempts # << >>
    /\ attempts[Len(attempts)].strategy = "C"
    /\ c_tried # << >>

ForceOutcome == attempts[Len(attempts)].outcome

\* C25: Strategy C attempts the absolute stream indices in ascending numeric
\* order, each index at most once, and stops at the first stream whose output
\* passes the size and content checks.
C25_AscendingOnceUntilFirstPass ==
    ForceLooped =>
        /\ \A i, j \in DOMAIN c_tried : i < j => c_tried[i].stream < c_tried[j].stream
        /\ \A i \in DOMAIN c_tried : c_tried[i].stream = i - 1
        /\ \A i \in DOMAIN c_tried :
              c_tried[i].passed => i = Len(c_tried) /\ ForceOutcome = "True"
        /\ ForceOutcome = "True" => c_tried[Len(c_tried)].passed
        /\ ForceOutcome = "False" => Len(c_tried) = Len(video)
        /\ ForceOutcome = "running" => pc = "C_try" /\ Len(c_tried) < Len(video)

\* C25 witness: Strategy C stopped at a stream whose output passed, and left
\* the streams after it untried
C25_Witness ==
    /\ ForceLooped
    /\ ForceOutcome = "True"
    /\ c_tried[Len(c_tried)].passed
    /\ Len(c_tried) < Len(video)

\* C26: in Strategy C, whenever an attempt on a stream does not win, no output
\* file of that attempt is left at the destination path when the next stream
\* is attempted or when the strategy returns failure.
C26_LosingAttemptLeavesNoFile ==
    [][(pc = "C_try" /\ file = "absent" /\ ~c_tried'[Len(c_tried')].passed)
          => file' = "absent"]_vars

\* subtitle_utils.extract_subtitle was called without a track index, the
\* structured probe failed and the heuristic scan found no subtitle line
ProbeFailedScanFoundNothing ==
    /\ entry = "utils"
    /\ track_index = None
    /\ listing.ffprobe = "raised"
    /\ listing.ffmpeg = "returned"
    /\ listing.reported = {}

\* the streams Strategy C has tried, in the order of the passes
StreamsTried == [i \in DOMAIN c_tried |-> c_tried[i].stream]

C21_EveryFileProcessedOnceInOrder ==
    /\ [](\A i \in DOMAIN b_processed : b_processed[i].file = mkv_files[i])
    /\ \A k \in FileNames :
          (b_pc = "loop" /\ k <= Len(mkv_files))
              ~> (~is_running \/ b_tool = "gone" \/ Len(b_processed) >= k)

\* C22: when the tool is fully unavailable the batch worker stops processing
\* the remaining files with a message instead of attempting the extraction
\* file by file, whether this is detected before the first file or while the
\* batch is running.
C22_UnavailableToolStopsBatch ==
    /\ b_end = "no_tool" => b_processed = << >>
    /\ \A i \in DOMAIN b_processed :
          b_processed[i].tool = "gone" => i = Len(b_processed)

----------------------------------------------------------------------------
\* Claims about the caches of the tool paths

\* the call that has just ended ran a version probe of the tool that did not
\* exit with 0 and then a download: the re-download of a failed integrity
\* check of that tool
RedownloadAfterFailedCheck(tool) ==
    /\ call'.fn = "check_ffmpeg_integrity"
    /\ \E i \in DOMAIN call'.events, j \in DOMAIN call'.events :
          /\ i < j
          /\ call'.events[i].op = "probe"
          /\ call'.events[i].path.name = tool
          /\ call'.events[i].exit # "ok"
          /\ call'.events[j].op = "download"

\* C31: once the ffmpeg cache holds a verified path, no operation changes it
\* except a re-download triggered by a failed integrity check of ffmpeg; in
\* particular, resolving ffprobe leaves the ffmpeg cache unchanged.
C31_VerifiedCacheWrittenOnce ==
    [][(/\ ffmpeg_path_cache # None
        /\ ffmpeg_verified
        /\ ffmpeg_path_cache \subseteq probed
        /\ ffmpeg_path_cache' # ffmpeg_path_cache)
          => RedownloadAfterFailedCheck("ffmpeg")]_vars

\* the last call ran a version probe of the tool that did not exit with 0,
\* tried a download, and every download it tried failed
ProbeAndRedownloadFailed(tool) ==
    /\ \E i \in EventsOf("probe") :
          call.events[i].path.name = tool /\ call.events[i].exit # "ok"
    /\ EventsOf("download") # {}
    /\ \A i \in EventsOf("download") : call.events[i].exit = "failed"

\* C34: check_ffmpeg_integrity returns a truthy value only if, at the end of
\* the call, both the ffmpeg path and the ffprobe path it resolved pass their
\* version probes; when a binary fails its probe and the re-download fails
\* too, it returns a falsy value.
C34_TruthyOnlyIfBothToolsVerify ==
    call.fn = "check_ffmpeg_integrity" =>
        /\ call.path # None =>
              /\ call.ffmpeg_path # None
              /\ bin[Val(call.ffmpeg_path)] = "ok"
              /\ bin[Val(call.path)] = "ok"
        /\ (ProbeAndRedownloadFailed("ffmpeg") \/ ProbeAndRedownloadFailed("ffprobe")) =>
              call.path = None

----------------------------------------------------------------------------
\* Claims about the batch worker: cancellation, the calls it makes, and the
\* request for a track

\* a file is started: a pass of the loop body begins
StartsFile == b_pc = "loop" /\ (b_pc' = "invoked" \/ Len(b_processed') > Len(b_processed))

\* C32: cancellation is honoured only between files: after stop() the worker
\* starts no further file, the file being processed at that moment runs to
\* completion, and the worker still emits its finished signal.
C32_StopBetweenFilesOnly ==
    /\ [][~is_running => ~StartsFile]_vars
    /\ \A k \in 0..MaxFiles :
          (~is_running /\ b_pc \in {"invoked", "wait"} /\ Len(b_processed) = k)
              ~> (Len(b_processed) = k + 1)
    /\ ~is_running ~> (b_pc = "ended")

\* C33: the batch worker calls the extractor once per input file, and starts
\* the translation of a file only after the extraction reported success and
\* verify_subtitle_file accepted the extracted file.
C33_OneExtractionThenValidatedTranslation ==
    b_worker = "batch_subs_gemini" =>
        \A i \in DOMAIN b_processed :
            /\ Len(b_processed[i].calls) = 1
            /\ b_processed[i].started =>
                  (b_processed[i].extracted = "True" /\ b_processed[i].verified)

\* C33 as the code has it: the worker calls the extractor once per input
\* file, and once more with the track the user selected when that call failed
\* and the user chose a track; it starts the translation of a file only after
\* the last call of the extractor reported success and verify_subtitle_file
\* accepted the extracted file.
C33_ExtractionRetriedOnSelectionThenValidatedTranslation ==
    b_worker # "main" =>
        \A i \in DOMAIN b_processed :
            /\ Len(b_processed[i].calls) \in {1, 2}
            /\ Len(b_processed[i].calls) = 2 =>
                  /\ b_worker = "batch_subs_gemini"
                  /\ b_processed[i].calls[2].track_index \in
                        {Some(PyInt(k)) : k \in SelectableTracks}
            /\ b_processed[i].started =>
                  (b_processed[i].extracted = "True" /\ b_processed[i].verified)

\* C33 witness: a file was extracted at the second call, with the track the
\* user selected, and its translation was started
C33_Witness ==
    /\ b_worker = "batch_subs_gemini"
    /\ \E i \in DOMAIN b_processed :
          /\ Len(b_processed[i].calls) = 2
          /\ b_processed[i].extracted = "True"
          /\ b_processed[i].started

\* C35: in the batch worker, when the extraction runs without a track chosen
\* by the user, the preference list that reaches find_best_subtitle_track is
\* the worker's preferred_languages, and nothing but an integer ordinal is
\* ever used as trackIndex in a -map argument.
C35_WorkerPreferencesReachSelection ==
    b_worker # "main" =>
        \A i \in DOMAIN b_processed :
            /\ b_processed[i].calls[1].preferred = Some(WorkerPreferred(b_worker))
            /\ \A j \in DOMAIN b_processed[i].calls :
                  \/ b_processed[i].calls[j].map = None
                  \/ Val(b_processed[i].calls[j].map).kind = "int"

\* C36: every request for a track that the worker thread sends to the main
\* thread is eventually followed by the worker leaving its wait loop: no
\* reply is emitted before the worker has connected its reply handlers, under
\* every interleaving of the two threads.
C36_NoReplyLost ==
    /\ [][(b_main = "queued" /\ b_main' = "idle") => b_slots]_vars
    /\ (b_pc = "invoked") ~> (b_pc \notin {"invoked", "wait"})

----------------------------------------------------------------------------
\* Claims about extract_all_subtitles (checked under SpecExport)

\* C37: extract_all_subtitles returns exactly the output paths of the tracks
\* that were actually extracted: every path in the returned list names a file
\* that exists with a size greater than 0, and the extraction tool was invoked
\* for each listed track.
C37_ReturnedPathsWereExtracted ==
    pc = "exported" =>
        /\ \A i \in DOMAIN extracted_files : NonEmpty(x_disk[extracted_files[i]])
        /\ \A i \in DOMAIN x_calls : x_calls[i].ran

\* C38: extract_all_subtitles writes distinct tracks of one container to
\* distinct output paths, also when two tracks share the same language and
\* title.
C38_DistinctTracksDistinctPaths ==
    \A i \in DOMAIN x_calls : \A j \in DOMAIN x_calls :
        i # j => x_calls[i].output_file # x_calls[j].output_file

----------------------------------------------------------------------------
\* Claims about the LoggerManager (checked under SpecLogger)

\* C39: the message queue never holds more than _max_queue_size messages,
\* under every interleaving of the add_message calls of several threads and
\* the processor thread.
C39_QueueNeverExceedsMaximum == message_queue <= max_queue_size

====
